---- MODULE Spec2Model ----
(***************************************************************************)
(* ProctorDiary: the REST API of the mentoring portal: registration,       *)
(* login, sessions and password reset (server/auth.ts) and the query /     *)
(* response workflow (server/routes.ts), over the data-access layer        *)
(* (server/storage.ts) and the relational schema (shared/schema.ts).       *)
(*                                                                         *)
(* The store is the state.  Every serial primary key is the row's index in *)
(* its table.  Each route handler, together with its middleware chain, is  *)
(* an operator from the request (the user the session resolves to, the :id *)
(* path parameter, the JSON body) and the current store to the HTTP status *)
(* code and the store after the request; the action of the route applies   *)
(* that operator.  Where requests in flight together matter, a handler is  *)
(* also given await by await, and the steps of the requests interleave.    *)
(* The read-only routes whose content matters (attendance figures, query   *)
(* and student lists, a query's thread) are operators from the caller and  *)
(* the store to what the reply holds.                                      *)
(***************************************************************************)
EXTENDS Integers, Sequences, FiniteSets, TLC

VARIABLES
    users,            \* table users
    studentProfiles,  \* table student_profiles
    proctorProfiles,  \* table proctor_profiles
    queries,          \* table queries
    queryResponses,   \* table query_responses
    now,              \* the clock read by defaultNow() and new Date()
    passwordResetTokens,  \* table password_reset_tokens
    sessions,         \* the session store: the user each client's cookie is logged in as
    requests,         \* requests in flight: handlers suspended at an await
    attendance        \* table attendance

accountVars == <<users, studentProfiles, proctorProfiles>>
authVars == <<passwordResetTokens, sessions, requests>>
vars == <<users, studentProfiles, proctorProfiles, queries, queryResponses, now,
          passwordResetTokens, sessions, requests, attendance>>

(***************************************************************************)
(* Bounds of the model.                                                    *)
(***************************************************************************)
MaxQueries == 1
MaxResponses == 1
MaxTime == 2
MaxUsers == 4
MaxTexts == 2
MaxClients == 2
MaxTokens == 2
MaxClock == 4
MaxResets == 2
MaxSignups == 1
MaxRegistrations == 2
MaxThread == 2
MaxAttendance == 3
MaxRaceResponses == 1
MaxWorkflowRequests == 2
MaxRaceQueries == 1

(***************************************************************************)
(* Values.                                                                 *)
(***************************************************************************)
\* a column that is NULL, an id that matched no row, a request without a session
Null == 0
\* a field that is absent from the JSON body
Undefined == "<undefined>"
\* the result of parseInt on text that starts with no digit
NaN == -1
\* a timestamp column that is NULL
NoTime == -1
\* Date.now() + 3600000: one hour, the clock ticking every thirty minutes
TokenLifetime == 2

roleEnum == {"student", "proctor"}
queryStatusEnum == {"pending", "in_progress", "resolved", "closed"}

(***************************************************************************)
(* parseInt(req.params.id): the value of the longest prefix of decimal     *)
(* digits, NaN when that prefix is empty.  A path parameter is a sequence  *)
(* of one-character strings.                                               *)
(***************************************************************************)
DigitChars == <<"0", "1", "2", "3", "4", "5", "6", "7", "8", "9">>

DigitValue(c) ==
    CASE c = "0" -> 0 [] c = "1" -> 1 [] c = "2" -> 2 [] c = "3" -> 3 [] c = "4" -> 4
      [] c = "5" -> 5 [] c = "6" -> 6 [] c = "7" -> 7 [] c = "8" -> 8 [] c = "9" -> 9
      [] OTHER -> NaN

RECURSIVE parsePrefix(_, _, _)
parsePrefix(s, i, acc) ==
    IF i > Len(s) \/ DigitValue(s[i]) = NaN
    THEN acc
    ELSE parsePrefix(s, i + 1, (IF acc = NaN THEN 0 ELSE acc) * 10 + DigitValue(s[i]))

parseInt(s) == parsePrefix(s, 1, NaN)

isNaN(n) == n = NaN

(***************************************************************************)
(* Data-access layer (DatabaseStorage).  A lookup returns the row's id, or *)
(* Null when no row matches.                                               *)
(***************************************************************************)
getUser(id) == IF id \in 1..Len(users) THEN id ELSE Null

getUserByEmail(email) ==
    IF \E u \in 1..Len(users) : users[u].email = email
    THEN CHOOSE u \in 1..Len(users) : users[u].email = email
    ELSE Null

getUserByUsername(username) ==
    IF \E u \in 1..Len(users) : users[u].username = username
    THEN CHOOSE u \in 1..Len(users) : users[u].username = username
    ELSE Null

\* the insert as it would be without the unique constraints
userInsertableAlways(us, insertUser) == TRUE

\* users.email and users.username are unique: the insert of a row that repeats
\* either is refused
userInsertable(us, insertUser) ==
    \A u \in 1..Len(us) :
        us[u].email # insertUser.email /\ us[u].username # insertUser.username

\* INSERT INTO users
createUser(us, insertUser) ==
    Append(us, [email    |-> insertUser.email,
                username |-> insertUser.username,
                password |-> insertUser.password,
                role     |-> insertUser.role])

\* INSERT INTO student_profiles
createStudentProfile(sps, profile) ==
    Append(sps, [userId    |-> profile.userId,
                 studentId |-> profile.studentId,
                 proctorId |-> profile.proctorId])

\* INSERT INTO proctor_profiles
createProctorProfile(pps, profile) ==
    Append(pps, [userId |-> profile.userId, facultyId |-> profile.facultyId])

getStudentProfile(userId) ==
    IF \E p \in 1..Len(studentProfiles) : studentProfiles[p].userId = userId
    THEN CHOOSE p \in 1..Len(studentProfiles) :
            /\ studentProfiles[p].userId = userId
            /\ \A o \in 1..(p - 1) : studentProfiles[o].userId # userId
    ELSE Null

getProctorProfile(userId) ==
    IF \E p \in 1..Len(proctorProfiles) : proctorProfiles[p].userId = userId
    THEN CHOOSE p \in 1..Len(proctorProfiles) :
            /\ proctorProfiles[p].userId = userId
            /\ \A o \in 1..(p - 1) : proctorProfiles[o].userId # userId
    ELSE Null

getProctorProfileById(id) == IF id \in 1..Len(proctorProfiles) THEN id ELSE Null

getQueryById(id) == IF id \in 1..Len(queries) THEN id ELSE Null

\* the insert as it would be if a query equal to a stored one, timestamps
\* aside, were not stored again
createQueryOnce(qs, query) ==
    IF \E q \in 1..Len(qs) : /\ qs[q].studentId = query.studentId
                             /\ qs[q].subject = query.subject
                             /\ qs[q].description = query.description
    THEN qs
    ELSE Append(qs, [studentId   |-> query.studentId,
                     proctorId   |-> query.proctorId,
                     subject     |-> query.subject,
                     description |-> query.description,
                     status      |-> IF "status" \in DOMAIN query
                                     THEN query.status ELSE "pending",
                     updatedAt   |-> now])

\* INSERT INTO queries: a column the values do not name takes its default
\* (status 'pending', updated_at now()).  created_at, which takes the same
\* default and is never written again, is not kept.
createQuery(qs, query) ==
    Append(qs, [studentId   |-> query.studentId,
                proctorId   |-> query.proctorId,
                subject     |-> query.subject,
                description |-> query.description,
                status      |-> IF "status" \in DOMAIN query
                                THEN query.status ELSE "pending",
                updatedAt   |-> now])

\* updateQueryStatus as it would be if a closed query could not be reopened
updateQueryStatusUnlessClosed(qs, id, status) ==
    IF id \in 1..Len(qs) /\ qs[id].status # "closed"
    THEN [qs EXCEPT ![id] = [@ EXCEPT !.status = status, !.updatedAt = now]]
    ELSE qs

\* UPDATE queries SET status, updated_at = new Date() WHERE id = :id
updateQueryStatus(qs, id, status) ==
    IF id \in 1..Len(qs)
    THEN [qs EXCEPT ![id] = [@ EXCEPT !.status = status, !.updatedAt = now]]
    ELSE qs

\* the insert as it would be if the data layer refused a closed query
createQueryResponseUnlessClosed(rs, response) ==
    IF queries[response.queryId].status = "closed"
    THEN rs
    ELSE Append(rs, [queryId   |-> response.queryId,
                     userId    |-> response.userId,
                     response  |-> response.response,
                     createdAt |-> now])

\* INSERT INTO query_responses (created_at defaults to now())
createQueryResponse(rs, response) ==
    Append(rs, [queryId   |-> response.queryId,
                userId    |-> response.userId,
                response  |-> response.response,
                createdAt |-> now])

\* SELECT ... WHERE query_id = :id ORDER BY created_at ASC, as the ids of the rows
getQueryResponses(queryId) ==
    {r \in 1..Len(queryResponses) : queryResponses[r].queryId = queryId}

\* SELECT ... FROM queries WHERE student_id = :id, as the ids of the rows
selectStudentQueries(studentId) ==
    {q \in 1..Len(queries) : queries[q].studentId = studentId}

\* the select as it would be without its WHERE clause
selectAllQueries(proctorId) == 1..Len(queries)

\* SELECT ... FROM queries WHERE proctor_id = :id, as the ids of the rows
selectProctorQueries(proctorId) ==
    {q \in 1..Len(queries) : queries[q].proctorId = proctorId}

\* SELECT ... FROM student_profiles WHERE proctor_id = :id, as the ids of the
\* rows; no row when the proctor profile does not exist
getStudentsByProctor(proctorId) ==
    IF getProctorProfileById(proctorId) = Null THEN {}
    ELSE {s \in 1..Len(studentProfiles) : studentProfiles[s].proctorId = proctorId}

(***************************************************************************)
(* Password-reset tokens.  A row keeps its place in the table when it is   *)
(* deleted, so that a row's index is its serial id; a token's text is the  *)
(* number of the random draw that made it.                                 *)
(***************************************************************************)
DeletedToken ==
    [userId |-> Null, token |-> Null, expiresAt |-> NoTime, usedAt |-> NoTime,
     deleted |-> TRUE]

\* INSERT INTO password_reset_tokens (used_at is NULL)
createPasswordResetToken(ts, token) ==
    Append(ts, [userId |-> token.userId, token |-> token.token,
                expiresAt |-> token.expiresAt, usedAt |-> NoTime, deleted |-> FALSE])

\* getPasswordResetToken as it would be if it selected the tokens not yet used
getPasswordResetTokenUnused(token) ==
    LET found == {t \in 1..Len(passwordResetTokens) :
                    /\ ~passwordResetTokens[t].deleted
                    /\ passwordResetTokens[t].token = token
                    /\ passwordResetTokens[t].usedAt = NoTime
                    /\ passwordResetTokens[t].expiresAt > now}
    IN  IF found = {} THEN Null ELSE CHOOSE t \in found : TRUE

\* SELECT ... WHERE token = :token AND used_at IS NOT NULL AND expires_at > new Date()
getPasswordResetToken(token) ==
    LET found == {t \in 1..Len(passwordResetTokens) :
                    /\ ~passwordResetTokens[t].deleted
                    /\ passwordResetTokens[t].token = token
                    /\ passwordResetTokens[t].usedAt # NoTime
                    /\ passwordResetTokens[t].expiresAt > now}
    IN  IF found = {} THEN Null ELSE CHOOSE t \in found : TRUE

\* UPDATE password_reset_tokens SET used_at = new Date() WHERE token = :token
markTokenAsUsed(ts, token) ==
    [t \in 1..Len(ts) |->
        IF ~ts[t].deleted /\ ts[t].token = token
        THEN [ts[t] EXCEPT !.usedAt = now] ELSE ts[t]]

\* DELETE ... WHERE expires_at < new Date() OR used_at IS NOT NULL
deleteExpiredTokens(ts) ==
    [t \in 1..Len(ts) |->
        IF ~ts[t].deleted /\ (ts[t].expiresAt < now \/ ts[t].usedAt # NoTime)
        THEN DeletedToken ELSE ts[t]]

\* UPDATE users SET password = :hashedPassword WHERE id = :userId
updateUserPassword(us, userId, hashedPassword) ==
    IF userId \in 1..Len(us)
    THEN [us EXCEPT ![userId] = [@ EXCEPT !.password = hashedPassword]]
    ELSE us

(***************************************************************************)
(* Request validation (zod schemas).                                       *)
(***************************************************************************)
\* createInsertSchema(queries).omit({id, status, createdAt, updatedAt}):
\* studentId and proctorId are numbers, subject and description are strings
insertQuerySchema(data) ==
    /\ data.studentId \in Nat
    /\ data.proctorId \in Nat
    /\ data.subject # Undefined
    /\ data.description # Undefined

\* queryFormSchema, the schema of the client's form: subject min(3),
\* description min(10)
queryFormSchema(body) ==
    /\ body.subject # Undefined /\ Len(body.subject) >= 3
    /\ body.description # Undefined /\ Len(body.description) >= 10

\* insertQueryResponseSchema.pick({response: true}): response is a string
insertQueryResponseSchema(body) == body.response # Undefined

\* z.string().email(): e-mail addresses are numbered from 1, and Null stands
\* for text that is no address or for no text at all
emailSchema(email) == email \in Nat \ {Null}

\* loginSchema: email an address, password min(6), role one of the two roles
loginSchema(body) ==
    /\ emailSchema(body.email)
    /\ body.password # Undefined /\ Len(body.password) >= 6
    /\ body.role \in roleEnum

\* passwordResetRequestSchema: email an address, role one of the two roles
passwordResetRequestSchema(body) ==
    emailSchema(body.email) /\ body.role \in roleEnum

\* passwordResetSchema: token a string, newPassword min(6)
passwordResetSchema(body) ==
    /\ body.token # Null
    /\ body.newPassword # Undefined /\ Len(body.newPassword) >= 6

\* z.object({status: z.enum(['pending', 'in_progress', 'resolved', 'closed'])})
statusSchema(body) == body.status \in queryStatusEnum

(***************************************************************************)
(* Middleware (server/auth.ts).  user is the id the session resolves to,   *)
(* Null for a request without an authenticated session.                    *)
(***************************************************************************)
isAuthenticated(user) == getUser(user) # Null

\* isRole as it would be if it looked at the session only
isRoleOfAny(user, role) == isAuthenticated(user)

isRole(user, role) == isAuthenticated(user) /\ users[user].role = role

(***************************************************************************)
(* Registration (server/auth.ts).  The reply is the status code, the three *)
(* account tables after the request, and the user the request's session is *)
(* logged in as (Null when the handler does not reach req.login).          *)
(***************************************************************************)
\* randomBytes(16): the salt of the n-th account, a value no other call draws
randomBytes(n) == n

\* the stored form of a password: the scrypt digest of the password under the
\* salt, followed by the salt
hashPassword(password, salt) == <<"scrypt", password, salt>>

\* the digest of the supplied password under the stored salt is the stored one
comparePasswords(supplied, stored) == hashPassword(supplied, stored[3]) = stored

\* the LocalStrategy's verify callback: the user, or Null for done(null, false)
verify(email, password) ==
    LET user == getUserByEmail(email) IN
    IF user = Null \/ ~comparePasswords(password, users[user].password)
    THEN Null ELSE user

LoginReply(code, login) == [code |-> code, login |-> login]

\* the role check as it would be if the handler logged in whoever the
\* strategy verified
roleMismatchIgnored(user, body) == FALSE

\* user.role !== req.body.role
roleMismatch(user, body) == users[user].role # body.role

\* POST /api/login
postLogin(body) ==
    IF ~loginSchema(body) THEN LoginReply(400, Null)
    ELSE LET user == verify(body.email, body.password) IN
    IF user = Null THEN LoginReply(401, Null)
    ELSE IF roleMismatch(user, body) THEN LoginReply(403, Null)
    ELSE LoginReply(200, user)

\* the reply as it would be if a newly registered proctor were given the
\* students who have none
RegisterReplyAssigning(code, us, sps, pps, login) ==
    [code |-> code, users |-> us,
     studentProfiles |->
        IF Len(pps) > Len(proctorProfiles)
        THEN [s \in 1..Len(sps) |->
                IF sps[s].proctorId = Null
                THEN [sps[s] EXCEPT !.proctorId = Len(pps)] ELSE sps[s]]
        ELSE sps,
     proctorProfiles |-> pps, login |-> login]

RegisterReply(code, us, sps, pps, login) ==
    [code |-> code, users |-> us, studentProfiles |-> sps,
     proctorProfiles |-> pps, login |-> login]

\* student_profiles.student_id is unique; proctor_id is NULL or references a
\* proctor profile.  An insert the database refuses leaves the table as it was.
studentProfileInsertable(profile) ==
    /\ \A p \in 1..Len(studentProfiles) :
          studentProfiles[p].studentId # profile.studentId
    /\ profile.proctorId = Null \/ getProctorProfileById(profile.proctorId) # Null

\* proctor_profiles.faculty_id is unique
proctorProfileInsertable(profile) ==
    \A p \in 1..Len(proctorProfiles) : proctorProfiles[p].facultyId # profile.facultyId

\* POST /api/register
postRegister(body) ==
    IF \/ body.email = Null \/ body.username = Null \/ body.password = Undefined
       \/ body.name = Undefined \/ body.role = Undefined
    THEN RegisterReply(400, users, studentProfiles, proctorProfiles, Null)
    ELSE IF body.role \notin roleEnum
    THEN RegisterReply(400, users, studentProfiles, proctorProfiles, Null)
    ELSE IF getUserByEmail(body.email) # Null
    THEN RegisterReply(400, users, studentProfiles, proctorProfiles, Null)
    ELSE IF getUserByUsername(body.username) # Null
    THEN RegisterReply(400, users, studentProfiles, proctorProfiles, Null)
    ELSE LET us == createUser(users, [email    |-> body.email,
                                      username |-> body.username,
                                      password |-> hashPassword(body.password,
                                                               randomBytes(Len(users) + 1)),
                                      role     |-> body.role])
             user == Len(us)
         IN
    IF body.role = "student"
    THEN LET studentProfile == body.studentProfile
             profile == [userId    |-> user,
                         studentId |-> studentProfile.studentId,
                         proctorId |-> studentProfile.proctorId]
         IN
         IF ~studentProfile.present
         THEN RegisterReply(400, us, studentProfiles, proctorProfiles, Null)
         ELSE IF \/ studentProfile.studentId = Null
                 \/ studentProfile.department = Undefined
                 \/ studentProfile.semester = Null
         THEN RegisterReply(400, us, studentProfiles, proctorProfiles, Null)
         ELSE IF ~studentProfileInsertable(profile)
         THEN RegisterReply(500, us, studentProfiles, proctorProfiles, Null)
         ELSE RegisterReply(201, us, createStudentProfile(studentProfiles, profile),
                            proctorProfiles, user)
    ELSE LET proctorProfile == body.proctorProfile
             profile == [userId |-> user, facultyId |-> proctorProfile.facultyId]
         IN
         IF ~proctorProfile.present
         THEN RegisterReply(400, us, studentProfiles, proctorProfiles, Null)
         ELSE IF \/ proctorProfile.facultyId = Null
                 \/ proctorProfile.department = Undefined
                 \/ proctorProfile.designation = Undefined
         THEN RegisterReply(400, us, studentProfiles, proctorProfiles, Null)
         ELSE IF ~proctorProfileInsertable(profile)
         THEN RegisterReply(500, us, studentProfiles, proctorProfiles, Null)
         ELSE RegisterReply(201, us, studentProfiles,
                            createProctorProfile(proctorProfiles, profile), user)

\* req.login / req.logout: the session of the client after a reply
sessionsAfter(client, login) ==
    IF login = Null THEN sessions ELSE [sessions EXCEPT ![client] = login]

\* POST /api/register, await by await.  A request in flight holds its
\* client and body, the place it has reached, the user it has created and,
\* once answered, its status code.
registerReceived(client, body) ==
    LET request == [client |-> client, body |-> body, pc |-> "getUserByEmail",
                    user |-> Null, code |-> Null]
    IN  IF \/ body.email = Null \/ body.username = Null \/ body.password = Undefined
           \/ body.name = Undefined \/ body.role = Undefined
        THEN [request EXCEPT !.pc = "done", !.code = 400]
        ELSE IF body.role \notin roleEnum
        THEN [request EXCEPT !.pc = "done", !.code = 400]
        ELSE request

\* the next await of request i: the account tables, the sessions and the
\* request after it
registerStep(i) ==
    LET request == requests[i]
        body == request.body
        after(us, sps, pps, ss, r) ==
            [users |-> us, studentProfiles |-> sps, proctorProfiles |-> pps,
             sessions |-> ss, request |-> r]
        answered(us, sps, pps, ss, code) ==
            after(us, sps, pps, ss, [request EXCEPT !.pc = "done", !.code = code])
        unchanged(r) == after(users, studentProfiles, proctorProfiles, sessions, r)
    IN
    CASE request.pc = "getUserByEmail" ->
            IF getUserByEmail(body.email) # Null
            THEN unchanged([request EXCEPT !.pc = "done", !.code = 400])
            ELSE unchanged([request EXCEPT !.pc = "getUserByUsername"])
      [] request.pc = "getUserByUsername" ->
            IF getUserByUsername(body.username) # Null
            THEN unchanged([request EXCEPT !.pc = "done", !.code = 400])
            ELSE unchanged([request EXCEPT !.pc = "createUser"])
      [] request.pc = "createUser" ->
            LET insertUser == [email    |-> body.email,
                               username |-> body.username,
                               password |-> hashPassword(body.password, randomBytes(i)),
                               role     |-> body.role]
                us == createUser(users, insertUser)
                profile == IF body.role = "student"
                           THEN body.studentProfile ELSE body.proctorProfile
            IN
            IF ~userInsertable(users, insertUser)
            THEN unchanged([request EXCEPT !.pc = "done", !.code = 500])
            ELSE IF ~profile.present
            THEN answered(us, studentProfiles, proctorProfiles, sessions, 400)
            ELSE IF body.role = "student"
                    /\ (\/ profile.studentId = Null \/ profile.department = Undefined
                        \/ profile.semester = Null)
            THEN answered(us, studentProfiles, proctorProfiles, sessions, 400)
            ELSE IF body.role = "proctor"
                    /\ (\/ profile.facultyId = Null \/ profile.department = Undefined
                        \/ profile.designation = Undefined)
            THEN answered(us, studentProfiles, proctorProfiles, sessions, 400)
            ELSE after(us, studentProfiles, proctorProfiles, sessions,
                       [request EXCEPT !.pc = "createProfile", !.user = Len(us)])
      [] request.pc = "createProfile" ->
            IF body.role = "student"
            THEN LET profile == [userId    |-> request.user,
                                 studentId |-> body.studentProfile.studentId,
                                 proctorId |-> body.studentProfile.proctorId]
                 IN  IF ~studentProfileInsertable(profile)
                     THEN unchanged([request EXCEPT !.pc = "done", !.code = 500])
                     ELSE answered(users, createStudentProfile(studentProfiles, profile),
                                   proctorProfiles,
                                   sessionsAfter(request.client, request.user), 201)
            ELSE LET profile == [userId    |-> request.user,
                                 facultyId |-> body.proctorProfile.facultyId]
                 IN  IF ~proctorProfileInsertable(profile)
                     THEN unchanged([request EXCEPT !.pc = "done", !.code = 500])
                     ELSE answered(users, studentProfiles,
                                   createProctorProfile(proctorProfiles, profile),
                                   sessionsAfter(request.client, request.user), 201)

(***************************************************************************)
(* Password reset (server/auth.ts).  The reply is the status code with the *)
(* tables the route writes.                                                *)
(***************************************************************************)
TokenReply(code, us, ts) == [code |-> code, users |-> us, passwordResetTokens |-> ts]

\* POST /api/forgot-password; mailSent tells whether transporter.sendMail
\* resolved or threw
postForgotPassword(body, mailSent) ==
    IF ~passwordResetRequestSchema(body)
    THEN TokenReply(400, users, passwordResetTokens)
    ELSE LET user == getUserByEmail(body.email) IN
    IF user = Null \/ users[user].role # body.role
    THEN TokenReply(200, users, passwordResetTokens)
    ELSE LET token == randomBytes(Len(passwordResetTokens) + 1)
             expiresAt == now + TokenLifetime
             ts == createPasswordResetToken(passwordResetTokens,
                       [userId |-> user, token |-> token, expiresAt |-> expiresAt])
         IN
    IF ~mailSent
    THEN TokenReply(500, users, ts)
    ELSE TokenReply(200, users, deleteExpiredTokens(ts))

\* the message of a forgot-password reply, by its status code
forgotPasswordMessage(code) ==
    CASE code = 400 -> "Invalid request data"
      [] code = 200 -> "If an account exists with that email, you will receive a password reset link"
      [] code = 500 -> "Failed to process password reset request"

\* POST /api/reset-password; the salt of the new hash is a draw of its own
postResetPassword(body) ==
    IF ~passwordResetSchema(body)
    THEN TokenReply(400, users, passwordResetTokens)
    ELSE LET resetToken == getPasswordResetToken(body.token) IN
    IF resetToken = Null
    THEN TokenReply(400, users, passwordResetTokens)
    ELSE LET hashedPassword == hashPassword(body.newPassword, randomBytes(0 - resetToken))
             userId == passwordResetTokens[resetToken].userId
         IN
    IF getUser(userId) = Null
    THEN TokenReply(404, users, passwordResetTokens)
    ELSE TokenReply(200, updateUserPassword(users, userId, hashedPassword),
                    markTokenAsUsed(passwordResetTokens, body.token))

\* POST /api/reset-password, await by await.  A request in flight holds its
\* body, the place it has reached, the user of the token row it has read and,
\* once answered, its status code.
resetReceived(body) ==
    IF ~passwordResetSchema(body)
    THEN [body |-> body, pc |-> "done", userId |-> Null, code |-> 400]
    ELSE [body |-> body, pc |-> "verify", userId |-> Null, code |-> Null]

\* the next await of request i: the tables and the request after it
resetStep(i) ==
    LET request == requests[i]
        after(us, ts, r) == [users |-> us, passwordResetTokens |-> ts, request |-> r]
    IN
    CASE request.pc = "verify" ->
            LET resetToken == getPasswordResetToken(request.body.token) IN
            IF resetToken = Null
            THEN after(users, passwordResetTokens,
                       [request EXCEPT !.pc = "done", !.code = 400])
            ELSE after(users, passwordResetTokens,
                       [request EXCEPT !.pc = "update",
                                       !.userId = passwordResetTokens[resetToken].userId])
      [] request.pc = "update" ->
            IF getUser(request.userId) = Null
            THEN after(users, passwordResetTokens,
                       [request EXCEPT !.pc = "done", !.code = 404])
            ELSE after(updateUserPassword(users, request.userId,
                           hashPassword(request.body.newPassword, randomBytes(0 - i))),
                       passwordResetTokens, [request EXCEPT !.pc = "mark"])
      [] request.pc = "mark" ->
            after(users, markTokenAsUsed(passwordResetTokens, request.body.token),
                  [request EXCEPT !.pc = "done", !.code = 200])

(***************************************************************************)
(* Route handlers.  The reply is the HTTP status code with the two tables  *)
(* the query routes write, as they are once the handler has returned.      *)
(***************************************************************************)
Reply(code, qs, rs) == [code |-> code, queries |-> qs, queryResponses |-> rs]

Refuse(code) == Reply(code, queries, queryResponses)

\* queryData as it would be if the handler spread the request body into it
queryDataWithStatus(user, proctorUserId, body) ==
    IF body.status = Undefined
    THEN [studentId |-> user, proctorId |-> proctorUserId,
          subject |-> body.subject, description |-> body.description]
    ELSE [studentId |-> user, proctorId |-> proctorUserId,
          subject |-> body.subject, description |-> body.description,
          status |-> body.status]

\* queryData as it would be if the handler took the proctor the client names
queryDataClientProctor(user, proctorUserId, body) ==
    [studentId   |-> user,
     proctorId   |-> IF body.proctorId = Null THEN proctorUserId ELSE body.proctorId,
     subject     |-> body.subject,
     description |-> body.description]

\* the object the create-query handler validates and inserts
queryData(user, proctorUserId, body) ==
    [studentId   |-> user,
     proctorId   |-> proctorUserId,
     subject     |-> body.subject,
     description |-> body.description]

\* the check as it would be if the handler went on without it
noProctorAssignedSkipped(studentProfile) == FALSE

\* !studentProfile.proctorId
noProctorAssigned(studentProfile) == studentProfiles[studentProfile].proctorId = Null

\* POST /api/student/queries
postStudentQueries(user, body) ==
    IF ~isAuthenticated(user) THEN Refuse(401)
    ELSE IF ~isRole(user, "student") THEN Refuse(403)
    ELSE LET studentProfile == getStudentProfile(user) IN
    IF studentProfile = Null THEN Refuse(404)
    ELSE IF noProctorAssigned(studentProfile) THEN Refuse(400)
    ELSE LET proctorProfile ==
                getProctorProfileById(studentProfiles[studentProfile].proctorId) IN
    IF proctorProfile = Null THEN Refuse(404)
    ELSE LET data == queryData(user, proctorProfiles[proctorProfile].userId, body) IN
    IF ~insertQuerySchema(data) THEN Refuse(400)
    ELSE Reply(201, createQuery(queries, data), queryResponses)

\* the write as it would be without the test of the status read before
respondStatusUpdateAlways(qs, queryId, status) ==
    updateQueryStatus(qs, queryId, "in_progress")

\* the proctor-specific respond handler's write to the query after the insert
respondStatusUpdate(qs, queryId, status) ==
    IF status = "pending" THEN updateQueryStatus(qs, queryId, "in_progress") ELSE qs

\* the proctor-specific respond handler's check of the caller against the query
canRespondAsProctor(user, query) == ~(queries[query].proctorId # user)

\* POST /api/proctor/queries/:id/respond
postProctorQueryRespond(user, id, body) ==
    IF ~isAuthenticated(user) THEN Refuse(401)
    ELSE IF ~isRole(user, "proctor") THEN Refuse(403)
    ELSE LET queryId == parseInt(id) IN
    IF isNaN(queryId) THEN Refuse(400)
    ELSE IF ~insertQueryResponseSchema(body) THEN Refuse(400)
    ELSE LET query == getQueryById(queryId) IN
    IF query = Null THEN Refuse(404)
    ELSE IF ~canRespondAsProctor(user, query) THEN Refuse(403)
    ELSE Reply(201,
               respondStatusUpdate(queries, queryId, queries[query].status),
               createQueryResponse(queryResponses,
                   [queryId |-> queryId, userId |-> user, response |-> body.response]))

\* the check as it would be if the role middleware were relied on alone
canUpdateStatusAnyProctor(user, query) == TRUE

\* the status handler's check of the caller against the query
canUpdateStatus(user, query) == ~(queries[query].proctorId # user)

\* PATCH /api/proctor/queries/:id/status
patchProctorQueryStatus(user, id, body) ==
    IF ~isAuthenticated(user) THEN Refuse(401)
    ELSE IF ~isRole(user, "proctor") THEN Refuse(403)
    ELSE LET queryId == parseInt(id) IN
    IF isNaN(queryId) THEN Refuse(400)
    ELSE IF ~statusSchema(body) THEN Refuse(400)
    ELSE LET query == getQueryById(queryId) IN
    IF query = Null THEN Refuse(404)
    ELSE IF ~canUpdateStatus(user, query) THEN Refuse(403)
    ELSE Reply(200, updateQueryStatus(queries, queryId, body.status), queryResponses)

\* the check as it would be if any authenticated user could view a query
canViewQueryAnyUser(user, query) == TRUE

\* the shared view handler's check of the caller against the query
canViewQuery(user, query) ==
    ~(queries[query].studentId # user /\ queries[query].proctorId # user)

\* the check as it would be if it compared the caller with the student alone
canRespondStudentOrAnyProctor(user, query) ==
    queries[query].studentId = user \/ users[user].role = "proctor"

\* the shared respond handler's check of the caller against the query
canRespond(user, query) ==
    ~(queries[query].studentId # user /\ queries[query].proctorId # user)

\* the shared view handler as it would be without the isAuthenticated middleware
getQueryUngated(user, id) ==
    LET queryId == parseInt(id) IN
    IF isNaN(queryId) THEN Refuse(400)
    ELSE LET query == getQueryById(queryId) IN
    IF query = Null THEN Refuse(404)
    ELSE IF ~canViewQuery(user, query) THEN Refuse(403)
    ELSE Refuse(200)

\* the shared view handler as it would be with the party check made first and
\* a missing query taken for one the caller is no party to
getQueryForbiddenBeforeLookup(user, id) ==
    IF ~isAuthenticated(user) THEN Refuse(401)
    ELSE LET queryId == parseInt(id) IN
    IF isNaN(queryId) THEN Refuse(400)
    ELSE LET query == getQueryById(queryId) IN
    IF query = Null \/ ~canViewQuery(user, query) THEN Refuse(403)
    ELSE Refuse(200)

\* GET /api/queries/:id
getQuery(user, id) ==
    IF ~isAuthenticated(user) THEN Refuse(401)
    ELSE LET queryId == parseInt(id) IN
    IF isNaN(queryId) THEN Refuse(400)
    ELSE LET query == getQueryById(queryId) IN
    IF query = Null THEN Refuse(404)
    ELSE IF ~canViewQuery(user, query) THEN Refuse(403)
    ELSE Refuse(200)

\* the orders in which ORDER BY created_at ASC can return a set of response
\* rows: every arrangement in which created_at never decreases.  Rows with
\* the same created_at come in an order the statement does not fix.
orderByCreatedAt(rows) ==
    {order \in [1..Cardinality(rows) -> rows] :
        /\ \A i, j \in 1..Cardinality(rows) : i # j => order[i] # order[j]
        /\ \A i \in 1..(Cardinality(rows) - 1) :
              queryResponses[order[i]].createdAt <= queryResponses[order[i + 1]].createdAt}

\* GET /api/queries/:id: the response lists the reply can hold, as row ids
getQueryResponseLists(user, id) ==
    IF getQuery(user, id).code # 200 THEN {}
    ELSE orderByCreatedAt(getQueryResponses(parseInt(id)))

\* GET /api/user
getApiUser(user) ==
    IF ~isAuthenticated(user) THEN Refuse(401) ELSE Refuse(200)

\* GET /api/profile
getProfile(user) ==
    IF ~isAuthenticated(user) THEN Refuse(401)
    ELSE IF users[user].role = "student"
    THEN IF getStudentProfile(user) = Null THEN Refuse(404) ELSE Refuse(200)
    ELSE IF users[user].role = "proctor"
    THEN IF getProctorProfile(user) = Null THEN Refuse(404) ELSE Refuse(200)
    ELSE Refuse(400)

\* GET /api/student/attendance and GET /api/student/academic
getStudentRecords(user) ==
    IF ~isAuthenticated(user) THEN Refuse(401)
    ELSE IF ~isRole(user, "student") THEN Refuse(403)
    ELSE IF getStudentProfile(user) = Null THEN Refuse(404)
    ELSE Refuse(200)

\* GET /api/student/queries
getStudentQueries(user) ==
    IF ~isAuthenticated(user) THEN Refuse(401)
    ELSE IF ~isRole(user, "student") THEN Refuse(403)
    ELSE Refuse(200)

\* GET /api/proctor/students and GET /api/proctor/academic
getProctorStudents(user) ==
    IF ~isAuthenticated(user) THEN Refuse(401)
    ELSE IF ~isRole(user, "proctor") THEN Refuse(403)
    ELSE IF getProctorProfile(user) = Null THEN Refuse(404)
    ELSE Refuse(200)

\* GET /api/proctor/student/:id as it would be if a student with no proctor
\* were open to every proctor
getProctorStudentUnlessAssigned(user, id) ==
    IF ~isAuthenticated(user) THEN Refuse(401)
    ELSE IF ~isRole(user, "proctor") THEN Refuse(403)
    ELSE LET studentId == parseInt(id) IN
    IF isNaN(studentId) THEN Refuse(400)
    ELSE IF studentId \notin 1..Len(studentProfiles) THEN Refuse(404)
    ELSE LET proctorProfile == getProctorProfile(user) IN
    IF proctorProfile = Null
       \/ (/\ studentProfiles[studentId].proctorId # Null
           /\ studentProfiles[studentId].proctorId # proctorProfile)
    THEN Refuse(403)
    ELSE Refuse(200)

\* GET /api/proctor/student/:id
getProctorStudent(user, id) ==
    IF ~isAuthenticated(user) THEN Refuse(401)
    ELSE IF ~isRole(user, "proctor") THEN Refuse(403)
    ELSE LET studentId == parseInt(id) IN
    IF isNaN(studentId) THEN Refuse(400)
    ELSE IF studentId \notin 1..Len(studentProfiles) THEN Refuse(404)
    ELSE LET proctorProfile == getProctorProfile(user) IN
    IF proctorProfile = Null \/ studentProfiles[studentId].proctorId # proctorProfile
    THEN Refuse(403)
    ELSE Refuse(200)

\* GET /api/proctor/queries
getProctorQueries(user) ==
    IF ~isAuthenticated(user) THEN Refuse(401)
    ELSE IF ~isRole(user, "proctor") THEN Refuse(403)
    ELSE Refuse(200)

\* GET /api/proctor/students: the students in the reply, as profile ids; a
\* student whose user row is missing is left out
proctorStudentList(user) ==
    IF getProctorStudents(user).code # 200 THEN {}
    ELSE {s \in getStudentsByProctor(getProctorProfile(user)) :
            getUser(studentProfiles[s].userId) # Null}

\* GET /api/student/queries: the queries in the reply, as row ids
studentQueryList(user) ==
    IF getStudentQueries(user).code # 200 THEN {} ELSE selectStudentQueries(user)

\* GET /api/proctor/queries: the queries in the reply, as row ids
proctorQueryList(user) ==
    IF getProctorQueries(user).code # 200 THEN {} ELSE selectProctorQueries(user)

\* the shared respond handler as it would be with the proctor-specific
\* handler's status write
postQueryRespondWithStatusWrite(user, id, body) ==
    IF ~isAuthenticated(user) THEN Refuse(401)
    ELSE LET queryId == parseInt(id) IN
    IF isNaN(queryId) THEN Refuse(400)
    ELSE IF ~insertQueryResponseSchema(body) THEN Refuse(400)
    ELSE LET query == getQueryById(queryId) IN
    IF query = Null THEN Refuse(404)
    ELSE IF ~canRespond(user, query) THEN Refuse(403)
    ELSE Reply(201,
               respondStatusUpdate(queries, queryId, queries[query].status),
               createQueryResponse(queryResponses,
                   [queryId |-> queryId, userId |-> user, response |-> body.response]))

\* POST /api/queries/:id/respond
postQueryRespond(user, id, body) ==
    IF ~isAuthenticated(user) THEN Refuse(401)
    ELSE LET queryId == parseInt(id) IN
    IF isNaN(queryId) THEN Refuse(400)
    ELSE IF ~insertQueryResponseSchema(body) THEN Refuse(400)
    ELSE LET query == getQueryById(queryId) IN
    IF query = Null THEN Refuse(404)
    ELSE IF ~canRespond(user, query) THEN Refuse(403)
    ELSE Reply(201, queries,
               createQueryResponse(queryResponses,
                   [queryId |-> queryId, userId |-> user, response |-> body.response]))

(***************************************************************************)
(* Requests.                                                               *)
(***************************************************************************)
\* who a request's session may resolve to
Callers == 0..Len(users)

\* the clients (cookie jars) that talk to the server
Clients == 1..MaxClients

\* path parameters: every stored id, the next one, and text that is no number
IdParams == {<<DigitChars[k + 1]>> : k \in 1..(Len(queries) + 1)} \cup {<<"x">>}

\* create-query bodies: the form's own fields, alone or with a status or a
\* proctorId beside them (the client sends the proctor's profile id), or
\* with one of the two texts missing
CreateBody(subject, description, status, proctorId) ==
    [subject |-> subject, description |-> description,
     status |-> status, proctorId |-> proctorId]

CreateBodies ==
    {CreateBody("Grade issue", "My internal marks seem wrong", s, p) :
        s \in {Undefined, "closed"}, p \in {Null, 2}}
    \cup {CreateBody(Undefined, "My internal marks seem wrong", Undefined, Null),
          CreateBody("Grade issue", Undefined, Undefined, Null)}

\* create-query bodies whose texts are long enough for the client's form or
\* too short for it
TextBodies ==
    {CreateBody(subject, description, Undefined, Null) :
        subject \in {"Grade issue", "Hi"},
        description \in {"My internal marks seem wrong", "Too short"}}

\* forgot-password bodies: a stored address or an unknown one or none, with
\* a role of the enum or another
ForgotBodies ==
    {[email |-> e, role |-> r] :
        e \in 0..(Len(users) + 1), r \in roleEnum \cup {"admin"}}

\* reset-password bodies: a token ever issued, an unknown one or none, with a
\* new password long enough or too short
ResetBodies ==
    {[token |-> t, newPassword |-> p] :
        t \in 0..(Len(passwordResetTokens) + 1), p \in {"secret2", "abc"}}

\* reset-password bodies that present a token ever issued
IssuedTokenBodies ==
    {[token |-> t, newPassword |-> "secret2"] : t \in 1..Len(passwordResetTokens)}

\* login bodies: each stored address with the password the accounts were
\* registered with and a role of the enum or another; the first address with
\* another password or one too short; an unknown address; no address
LoginBodies ==
    {[email |-> e, password |-> "secret1", role |-> r] :
        e \in 1..Len(users), r \in roleEnum \cup {"admin"}}
    \cup {[email |-> e, password |-> p, role |-> "student"] :
            e \in {1}, p \in {"secret9", "abc"}}
    \cup {[email |-> e, password |-> "secret1", role |-> "student"] :
            e \in {Null, Len(users) + 1}}

RespondBodies == {[response |-> r] : r \in {Undefined, "Noted"}}

StatusBodies == {[status |-> s] : s \in queryStatusEnum \cup {"reopened"}}

\* the status bodies that clients with sessions send
ResolveBodies == {[status |-> s] : s \in {"resolved", "reopened"}}

\* registration bodies.  E-mail addresses, usernames, student ids and faculty
\* ids are numbered: a request names one already stored or the next unused
\* one, and Null stands for a field that is missing or empty.
NoProfile ==
    [present |-> FALSE, studentId |-> Null, facultyId |-> Null,
     department |-> Undefined, semester |-> Null, designation |-> Undefined,
     proctorId |-> Null]

StudentProfileBodies ==
    {[NoProfile EXCEPT !.present = TRUE, !.studentId = i,
                       !.department = "CSE", !.semester = 1, !.proctorId = p] :
        i \in 1..(Len(studentProfiles) + 1), p \in 0..(Len(proctorProfiles) + 1)}
    \cup {[NoProfile EXCEPT !.present = TRUE, !.studentId = Len(studentProfiles) + 1,
                            !.department = "CSE"]}

ProctorProfileBodies ==
    {[NoProfile EXCEPT !.present = TRUE, !.facultyId = i,
                       !.department = "CSE", !.designation = "Professor"] :
        i \in 1..(Len(proctorProfiles) + 1)}
    \cup {[NoProfile EXCEPT !.present = TRUE, !.facultyId = Len(proctorProfiles) + 1,
                            !.department = "CSE"]}

RegisterBodies ==
    {[email |-> e, username |-> u, password |-> "secret1", name |-> n, role |-> r,
      studentProfile |-> sp, proctorProfile |-> pp] :
        e \in 1..(Len(users) + 1), u \in 1..(Len(users) + 1),
        n \in {"Asha"}, r \in {"student", "proctor", "admin"},
        sp \in {NoProfile} \cup StudentProfileBodies,
        pp \in {NoProfile} \cup ProctorProfileBodies}
    \cup {[email |-> Len(users) + 1, username |-> Len(users) + 1, password |-> "secret1",
           name |-> Undefined, role |-> "student",
           studentProfile |-> NoProfile, proctorProfile |-> NoProfile]}

\* registration bodies of a new account: a student without the profile, a
\* student with it, a proctor with it
SignupBodies ==
    LET body(role, sp, pp) ==
            [email |-> Len(users) + 1, username |-> Len(users) + 1,
             password |-> "secret1", name |-> "Asha", role |-> role,
             studentProfile |-> sp, proctorProfile |-> pp]
    IN  {body("student", NoProfile, NoProfile),
         body("student", [NoProfile EXCEPT !.present = TRUE,
                                           !.studentId = Len(users) + 1,
                                           !.department = "CSE", !.semester = 1],
              NoProfile),
         body("proctor", NoProfile,
              [NoProfile EXCEPT !.present = TRUE, !.facultyId = Len(users) + 1,
                                !.department = "CSE", !.designation = "Professor"])}

\* registration bodies of students that compete for two addresses and two
\* usernames
CompetingBodies ==
    {[email |-> e, username |-> u, password |-> "secret1", name |-> "Asha",
      role |-> "student",
      studentProfile |-> [NoProfile EXCEPT !.present = TRUE, !.studentId = e,
                                           !.department = "CSE", !.semester = 1],
      proctorProfile |-> NoProfile] : e \in 1..2, u \in 1..2}

(***************************************************************************)
(* The accounts the store holds when the query workflow starts, as four    *)
(* registrations leave them (SeedAccounts is reachable under               *)
(* SpecAccounts): a student registered without a proctor, two proctors,    *)
(* and a student registered with the second proctor's profile id.  A       *)
(* profile's id differs from its user's id, as it does in general.         *)
(***************************************************************************)
Account(n, role) ==
    [email |-> n, username |-> n, password |-> hashPassword("secret1", randomBytes(n)),
     role |-> role]

SeedUsers ==
    <<Account(1, "student"), Account(2, "proctor"), Account(3, "proctor"),
      Account(4, "student")>>

SeedStudentProfiles ==
    <<[userId |-> 1, studentId |-> 1, proctorId |-> Null],
      [userId |-> 4, studentId |-> 2, proctorId |-> 2]>>

SeedProctorProfiles ==
    <<[userId |-> 2, facultyId |-> 1], [userId |-> 3, facultyId |-> 2]>>

Init ==
    /\ users = SeedUsers
    /\ studentProfiles = SeedStudentProfiles
    /\ proctorProfiles = SeedProctorProfiles
    /\ queries = <<>>
    /\ queryResponses = <<>>
    /\ now = 0
    /\ passwordResetTokens = <<>>
    /\ sessions = [client \in Clients |-> Null]
    /\ requests = <<>>
    /\ attendance = <<>>

(***************************************************************************)
(* Actions: one per route, applying the handler's reply to the store.      *)
(***************************************************************************)
Apply(reply) ==
    /\ queries' = reply.queries
    /\ queryResponses' = reply.queryResponses
    /\ UNCHANGED <<attendance, accountVars, now, authVars>>

CreateQuery(user, body) ==
    /\ Len(queries) < MaxQueries
    /\ Apply(postStudentQueries(user, body))

ProctorRespond(user, id, body) ==
    /\ Len(queryResponses) < MaxResponses
    /\ Apply(postProctorQueryRespond(user, id, body))

UpdateStatus(user, id, body) ==
    Apply(patchProctorQueryStatus(user, id, body))

ViewQuery(user, id) ==
    Apply(getQuery(user, id))

GenericRespond(user, id, body) ==
    /\ Len(queryResponses) < MaxResponses
    /\ Apply(postQueryRespond(user, id, body))

Tick ==
    /\ now < MaxTime
    /\ now' = now + 1
    /\ UNCHANGED <<attendance, accountVars, queries, queryResponses, authVars>>

Next ==
    \/ \E user \in Callers, body \in CreateBodies : CreateQuery(user, body)
    \/ \E user \in Callers, id \in IdParams, body \in RespondBodies :
            ProctorRespond(user, id, body)
    \/ \E user \in Callers, id \in IdParams, body \in StatusBodies :
            UpdateStatus(user, id, body)
    \/ \E user \in Callers, id \in IdParams : ViewQuery(user, id)
    \/ \E user \in Callers, id \in IdParams, body \in RespondBodies :
            GenericRespond(user, id, body)
    \/ Tick

Spec == Init /\ [][Next]_vars

(***************************************************************************)
(* Query creation alone, with texts of every length.                       *)
(***************************************************************************)
CreateQueryOfText(user, body) ==
    /\ Len(queries) < MaxTexts
    /\ Apply(postStudentQueries(user, body))

NextTexts ==
    \/ \E user \in Callers, body \in TextBodies : CreateQueryOfText(user, body)
    \/ Tick

SpecTexts == Init /\ [][NextTexts]_vars

(***************************************************************************)
(* Password reset alone, over the seeded accounts.                         *)
(***************************************************************************)
ApplyToken(reply) ==
    /\ users' = reply.users
    /\ passwordResetTokens' = reply.passwordResetTokens
    /\ UNCHANGED <<attendance, studentProfiles, proctorProfiles, queries, queryResponses, now,
                   sessions, requests>>

ForgotPassword(body, mailSent) ==
    /\ Len(passwordResetTokens) < MaxTokens
    /\ ApplyToken(postForgotPassword(body, mailSent))

ResetPassword(body) ==
    ApplyToken(postResetPassword(body))

ClockTick ==
    /\ now < MaxClock
    /\ now' = now + 1
    /\ UNCHANGED <<attendance, accountVars, queries, queryResponses, authVars>>

NextTokens ==
    \/ \E body \in ForgotBodies, mailSent \in BOOLEAN : ForgotPassword(body, mailSent)
    \/ \E body \in ResetBodies : ResetPassword(body)
    \/ ClockTick

SpecTokens == Init /\ [][NextTokens]_vars

(***************************************************************************)
(* Reset-password requests in flight together: each await of a handler is  *)
(* a step, and the steps of different requests interleave.                 *)
(***************************************************************************)
ReceiveReset(body) ==
    /\ Len(requests) < MaxResets
    /\ requests' = Append(requests, resetReceived(body))
    /\ UNCHANGED <<attendance, accountVars, queries, queryResponses, now, passwordResetTokens,
                   sessions>>

StepReset(i) ==
    /\ requests[i].pc # "done"
    /\ LET after == resetStep(i) IN
        /\ users' = after.users
        /\ passwordResetTokens' = after.passwordResetTokens
        /\ requests' = [requests EXCEPT ![i] = after.request]
    /\ UNCHANGED <<attendance, studentProfiles, proctorProfiles, queries, queryResponses, now,
                   sessions>>

NextResetRace ==
    \/ \E body \in ForgotBodies, mailSent \in BOOLEAN : ForgotPassword(body, mailSent)
    \/ \E body \in IssuedTokenBodies : ReceiveReset(body)
    \/ \E i \in 1..Len(requests) : StepReset(i)

SpecResetRace == Init /\ [][NextResetRace]_vars

(***************************************************************************)
(* Registration alone, from the empty store.                               *)
(***************************************************************************)
InitAccounts ==
    /\ users = <<>>
    /\ studentProfiles = <<>>
    /\ proctorProfiles = <<>>
    /\ queries = <<>>
    /\ queryResponses = <<>>
    /\ now = 0
    /\ passwordResetTokens = <<>>
    /\ sessions = [client \in Clients |-> Null]
    /\ requests = <<>>
    /\ attendance = <<>>

Register(client, body) ==
    /\ Len(users) < MaxUsers
    /\ LET reply == postRegister(body) IN
        /\ users' = reply.users
        /\ studentProfiles' = reply.studentProfiles
        /\ proctorProfiles' = reply.proctorProfiles
        /\ sessions' = sessionsAfter(client, reply.login)
    /\ UNCHANGED <<attendance, queries, queryResponses, now, passwordResetTokens, requests>>

\* a registration on top of the seeded accounts
Signup(client, body) ==
    /\ Len(users) < Len(SeedUsers) + MaxSignups
    /\ LET reply == postRegister(body) IN
        /\ users' = reply.users
        /\ studentProfiles' = reply.studentProfiles
        /\ proctorProfiles' = reply.proctorProfiles
        /\ sessions' = sessionsAfter(client, reply.login)
    /\ UNCHANGED <<attendance, queries, queryResponses, now, passwordResetTokens, requests>>

Login(client, body) ==
    /\ sessions' = sessionsAfter(client, postLogin(body).login)
    /\ UNCHANGED <<attendance, accountVars, queries, queryResponses, now, passwordResetTokens,
                   requests>>

\* POST /api/logout: req.logout
Logout(client) ==
    /\ sessions' = [sessions EXCEPT ![client] = Null]
    /\ UNCHANGED <<attendance, accountVars, queries, queryResponses, now, passwordResetTokens,
                   requests>>

\* the cookie's maxAge has passed
SessionExpires(client) ==
    /\ sessions[client] # Null
    /\ sessions' = [sessions EXCEPT ![client] = Null]
    /\ UNCHANGED <<attendance, accountVars, queries, queryResponses, now, passwordResetTokens,
                   requests>>

(***************************************************************************)
(* Sessions: clients sign up, log in and out, and create queries and       *)
(* update their status as the user their session resolves to.              *)
(***************************************************************************)
NextAuth ==
    \/ \E client \in Clients, body \in SignupBodies : Signup(client, body)
    \/ \E client \in Clients, body \in LoginBodies : Login(client, body)
    \/ \E client \in Clients : Logout(client)
    \/ \E client \in Clients : SessionExpires(client)
    \/ \E client \in Clients, body \in CreateBodies :
            CreateQuery(sessions[client], body)
    \/ \E client \in Clients, id \in IdParams, body \in ResolveBodies :
            UpdateStatus(sessions[client], id, body)

SpecAuth == Init /\ [][NextAuth]_vars

NextAccounts == \E client \in Clients, body \in RegisterBodies : Register(client, body)

SpecAccounts == InitAccounts /\ [][NextAccounts]_vars

SeedAccounts ==
    /\ users = SeedUsers
    /\ studentProfiles = SeedStudentProfiles
    /\ proctorProfiles = SeedProctorProfiles

(***************************************************************************)
(* Registrations in flight together, from the empty store.                 *)
(***************************************************************************)
ReceiveRegister(client, body) ==
    /\ Len(requests) < MaxRegistrations
    /\ requests' = Append(requests, registerReceived(client, body))
    /\ UNCHANGED <<attendance, accountVars, queries, queryResponses, now, passwordResetTokens,
                   sessions>>

StepRegister(i) ==
    /\ requests[i].pc # "done"
    /\ LET after == registerStep(i) IN
        /\ users' = after.users
        /\ studentProfiles' = after.studentProfiles
        /\ proctorProfiles' = after.proctorProfiles
        /\ sessions' = after.sessions
        /\ requests' = [requests EXCEPT ![i] = after.request]
    /\ UNCHANGED <<attendance, queries, queryResponses, now, passwordResetTokens>>

NextRegisterRace ==
    \/ \E client \in Clients, body \in CompetingBodies : ReceiveRegister(client, body)
    \/ \E i \in 1..Len(requests) : StepRegister(i)

SpecRegisterRace == InitAccounts /\ [][NextRegisterRace]_vars

(***************************************************************************)
(* Attendance.  A percentage is a JavaScript number with two decimals; it  *)
(* is held here as the integer number of hundredths (66.67 is 6667).       *)
(***************************************************************************)
createAttendance(as, attendanceRecord) == Append(as, attendanceRecord)

\* the attendance rows of a student profile, in table order
getStudentAttendance(studentId) ==
    LET ofStudent(record) == record.studentId = studentId IN
    SelectSeq(attendance, ofStudent)

\* Number(x.toFixed(2)) of x = numerator / denominator * 100, truncating
toFixedTruncating(numerator, denominator) == (10000 * numerator) \div denominator

\* Number(x.toFixed(2)) of x = numerator / denominator * 100: toFixed takes
\* the nearest number of hundredths and the larger one of two equally near.
\* (The double x differs from the quotient by far less than the quotient's
\* distance to a midpoint between hundredths, unless it is one: a midpoint
\* needs a denominator that is a multiple of 32, and such quotients times
\* 100 are computed exactly.)
toFixed(numerator, denominator) == (20000 * numerator + denominator) \div (2 * denominator)

\* total > 0 ? Number(((present / total) * 100).toFixed(2)) : 0
percentageOf(present, total) == IF total > 0 THEN toFixed(present, total) ELSE 0

\* property names that every object literal inherits from Object.prototype:
\* courseAttendance[name] is truthy for them before any row is counted
ObjectPrototypeKeys == {"constructor", "toString", "valueOf", "__proto__"}

\* the forEach over the rows: row k onwards counted into courseAttendance.
\* For an inherited name the entry is never created and the counters go to
\* the inherited object, which Object.keys and the reply do not show.
RECURSIVE countRecords(_, _, _)
countRecords(records, k, courseAttendance) ==
    IF k > Len(records) THEN courseAttendance
    ELSE LET record == records[k]
             courseName == record.courseName
         IN
         IF courseName \in ObjectPrototypeKeys
         THEN countRecords(records, k + 1, courseAttendance)
         ELSE LET entry == IF courseName \in DOMAIN courseAttendance
                           THEN courseAttendance[courseName]
                           ELSE [total |-> 0, present |-> 0, percentage |-> 0]
                  counted == [entry EXCEPT
                                 !.total = @ + 1,
                                 !.present = IF record.isPresent THEN @ + 1 ELSE @]
              IN
              countRecords(records, k + 1,
                  [course \in DOMAIN courseAttendance \cup {courseName} |->
                      IF course = courseName THEN counted ELSE courseAttendance[course]])

\* the sum of amounts[course] over a set of courses
RECURSIVE sumOver(_, _)
sumOver(courses, amounts) ==
    IF courses = {} THEN 0
    ELSE LET course == CHOOSE c \in courses : TRUE IN
         amounts[course] + sumOver(courses \ {course}, amounts)

\* GET /api/student/attendance: the status code and, with 200, the body
getApiStudentAttendance(user) ==
    LET refused(code) == [code |-> code, courseWise |-> Null, overall |-> Null] IN
    IF ~isAuthenticated(user) THEN refused(401)
    ELSE IF ~isRole(user, "student") THEN refused(403)
    ELSE LET studentProfile == getStudentProfile(user) IN
    IF studentProfile = Null THEN refused(404)
    ELSE LET records == getStudentAttendance(studentProfile)
             counted == countRecords(records, 1, [course \in {} |-> Null])
             courseWise == [course \in DOMAIN counted |->
                               [counted[course] EXCEPT
                                   !.percentage = percentageOf(counted[course].present,
                                                               counted[course].total)]]
             totalOf == [course \in DOMAIN courseWise |-> courseWise[course].total]
             presentOf == [course \in DOMAIN courseWise |-> courseWise[course].present]
             overallTotal == sumOver(DOMAIN courseWise, totalOf)
             overallPresent == sumOver(DOMAIN courseWise, presentOf)
         IN
         [code |-> 200,
          courseWise |-> courseWise,
          overall |-> [total |-> overallTotal, present |-> overallPresent,
                       percentage |-> percentageOf(overallPresent, overallTotal)]]

\* GET /api/proctor/students: the attendance figures of one listed student
attendanceOfStudent(studentId) ==
    LET attendanceRecords == getStudentAttendance(studentId)
        isPresent(record) == record.isPresent
        totalClasses == Len(attendanceRecords)
        presentClasses == Len(SelectSeq(attendanceRecords, isPresent))
    IN
    [percentage |-> percentageOf(presentClasses, totalClasses),
     total |-> totalClasses, present |-> presentClasses]

(***************************************************************************)
(* Attendance rows are written through storage.createAttendance only; no   *)
(* route calls it.  Rows arrive one at a time for the seeded students.     *)
(***************************************************************************)
CourseNames == {"CS101", "MA201", "constructor"}

AttendanceRecords ==
    {[studentId |-> s, courseName |-> c, isPresent |-> p] :
        s \in 1..Len(studentProfiles), c \in CourseNames, p \in BOOLEAN}

RecordAttendance(attendanceRecord) ==
    /\ Len(attendance) < MaxAttendance
    /\ attendance' = createAttendance(attendance, attendanceRecord)
    /\ UNCHANGED <<accountVars, queries, queryResponses, now, authVars>>

NextAttendance == \E attendanceRecord \in AttendanceRecords : RecordAttendance(attendanceRecord)

SpecAttendance == Init /\ [][NextAttendance]_vars

(***************************************************************************)
(* The two proctor routes that write a query's status, await by await.     *)
(* A request in flight holds its caller, the parsed id, its body, the      *)
(* place it has reached, the status of the row it has read and, once       *)
(* answered, its status code.                                              *)
(***************************************************************************)
workflowRequest(route, user, queryId, body, pc, code) ==
    [route |-> route, user |-> user, queryId |-> queryId, body |-> body,
     pc |-> pc, status |-> Undefined, code |-> code]

\* PATCH /api/proctor/queries/:id/status up to its first await
statusReceived(user, id, body) ==
    LET queryId == parseInt(id)
        answered(code) == workflowRequest("status", user, queryId, body, "done", code)
    IN
    IF ~isAuthenticated(user) THEN answered(401)
    ELSE IF ~isRole(user, "proctor") THEN answered(403)
    ELSE IF isNaN(queryId) THEN answered(400)
    ELSE IF ~statusSchema(body) THEN answered(400)
    ELSE workflowRequest("status", user, queryId, body, "getQueryById", Null)

\* POST /api/proctor/queries/:id/respond up to its first await
respondReceived(user, id, body) ==
    LET queryId == parseInt(id)
        answered(code) == workflowRequest("respond", user, queryId, body, "done", code)
    IN
    IF ~isAuthenticated(user) THEN answered(401)
    ELSE IF ~isRole(user, "proctor") THEN answered(403)
    ELSE IF isNaN(queryId) THEN answered(400)
    ELSE IF ~insertQueryResponseSchema(body) THEN answered(400)
    ELSE workflowRequest("respond", user, queryId, body, "getQueryById", Null)

\* the write as it would be with a version check: refused when the row is no
\* longer as the handler read it
statusUpdateWriteIfUnchanged(request) ==
    IF queries[request.queryId].status # request.status
    THEN [queries |-> queries, code |-> 409]
    ELSE [queries |-> updateQueryStatus(queries, request.queryId, request.body.status),
          code |-> 200]

\* the status handler's write and answer
statusUpdateWrite(request) ==
    [queries |-> updateQueryStatus(queries, request.queryId, request.body.status),
     code |-> 200]

\* the next await of request i: the tables and the request after it
workflowStep(i) ==
    LET request == requests[i]
        after(qs, rs, r) == [queries |-> qs, queryResponses |-> rs, request |-> r]
        answered(code) == [request EXCEPT !.pc = "done", !.code = code]
    IN
    CASE request.pc = "getQueryById" ->
            LET query == getQueryById(request.queryId) IN
            IF query = Null THEN after(queries, queryResponses, answered(404))
            ELSE IF queries[query].proctorId # request.user
            THEN after(queries, queryResponses, answered(403))
            ELSE after(queries, queryResponses,
                       [request EXCEPT !.status = queries[query].status,
                                       !.pc = IF request.route = "status"
                                              THEN "updateQueryStatus"
                                              ELSE "createQueryResponse"])
      [] request.pc = "updateQueryStatus" /\ request.route = "status" ->
            LET written == statusUpdateWrite(request) IN
            after(written.queries, queryResponses, answered(written.code))
      [] request.pc = "createQueryResponse" ->
            after(queries,
                  createQueryResponse(queryResponses,
                      [queryId |-> request.queryId, userId |-> request.user,
                       response |-> request.body.response]),
                  IF request.status = "pending"
                  THEN [request EXCEPT !.pc = "updateQueryStatus"]
                  ELSE answered(201))
      [] request.pc = "updateQueryStatus" /\ request.route = "respond" ->
            after(updateQueryStatus(queries, request.queryId, "in_progress"),
                  queryResponses, answered(201))

(***************************************************************************)
(* Status updates and proctor responses in flight together on the seeded   *)
(* accounts: the student with a proctor files queries, proctors send       *)
(* requests, and the awaits of the requests interleave.                    *)
(***************************************************************************)
\* the proctors: the one the student is assigned to and the other one
Proctors == {user \in 1..Len(users) : users[user].role = "proctor"}

\* the statuses a proctor decides a query with
DecisionBodies == {[status |-> s] : s \in {"resolved", "closed"}}

NotedBodies == {[response |-> "Noted"]}

FileQuery ==
    /\ Len(queries) < MaxRaceQueries
    /\ Apply(postStudentQueries(4, CreateBody("Grade issue", "My internal marks seem wrong",
                                               Undefined, Null)))

ReceiveStatus(user, id, body) ==
    /\ Len(requests) < MaxWorkflowRequests
    /\ requests' = Append(requests, statusReceived(user, id, body))
    /\ UNCHANGED <<attendance, accountVars, queries, queryResponses, now, passwordResetTokens,
                   sessions>>

ReceiveRespond(user, id, body) ==
    /\ Len(requests) < MaxWorkflowRequests
    /\ Len(queryResponses)
         + Cardinality({i \in 1..Len(requests) : /\ requests[i].route = "respond"
                                                  /\ requests[i].pc = "getQueryById"})
         < MaxRaceResponses
    /\ requests' = Append(requests, respondReceived(user, id, body))
    /\ UNCHANGED <<attendance, accountVars, queries, queryResponses, now, passwordResetTokens,
                   sessions>>

StepWorkflow(i) ==
    /\ requests[i].pc # "done"
    /\ LET after == workflowStep(i) IN
        /\ queries' = after.queries
        /\ queryResponses' = after.queryResponses
        /\ requests' = [requests EXCEPT ![i] = after.request]
    /\ UNCHANGED <<attendance, accountVars, now, passwordResetTokens, sessions>>

NextWorkflowRace ==
    \/ FileQuery
    \/ \E user \in Proctors, id \in IdParams, body \in DecisionBodies :
            ReceiveStatus(user, id, body)
    \/ \E user \in Proctors, id \in IdParams, body \in NotedBodies :
            ReceiveRespond(user, id, body)
    \/ \E i \in 1..Len(requests) : StepWorkflow(i)

SpecWorkflowRace == Init /\ [][NextWorkflowRace]_vars

(***************************************************************************)
(* A query's thread: the student with a proctor files queries, any caller  *)
(* responds through either respond route, and the clock advances.          *)
(***************************************************************************)
Respond(user, id, body) ==
    /\ Len(queryResponses) < MaxThread
    /\ Apply(postQueryRespond(user, id, body))

RespondAsProctor(user, id, body) ==
    /\ Len(queryResponses) < MaxThread
    /\ Apply(postProctorQueryRespond(user, id, body))

NextThread ==
    \/ FileQuery
    \/ \E user \in Callers, id \in IdParams, body \in RespondBodies : Respond(user, id, body)
    \/ \E user \in Callers, id \in IdParams, body \in RespondBodies :
            RespondAsProctor(user, id, body)
    \/ Tick

SpecThread == Init /\ [][NextThread]_vars

(***************************************************************************)
(* The operations that write rows, one request at a time on the seeded     *)
(* accounts: registration, create query, status update, forgot-password    *)
(* and reset-password.                                                     *)
(***************************************************************************)
\* forgot-password bodies for the first student, the first proctor and an
\* unknown address, with either role
AccountForgotBodies ==
    {[email |-> e, role |-> r] : e \in {1, 2, Len(users) + 1}, r \in roleEnum}

NextOperations ==
    \/ \E body \in SignupBodies : Signup(1, body)
    \/ \E user \in Callers, body \in CreateBodies : CreateQuery(user, body)
    \/ \E user \in Callers, id \in IdParams, body \in StatusBodies :
            UpdateStatus(user, id, body)
    \/ \E body \in AccountForgotBodies, mailSent \in BOOLEAN : ForgotPassword(body, mailSent)
    \/ \E body \in ResetBodies : ResetPassword(body)

SpecOperations == Init /\ [][NextOperations]_vars

(***************************************************************************)
(* The routes that write rows, on the seeded accounts: new students enrol  *)
(* with or without a proctor, new proctors register, students file         *)
(* queries, proctors respond and decide, passwords are reset.              *)
(***************************************************************************)
\* registration bodies of a student with no proctor, with each stored
\* proctor profile or with one that is not stored, and of a proctor
EnrolBodies ==
    LET body(role, sp, pp) ==
            [email |-> Len(users) + 1, username |-> Len(users) + 1,
             password |-> "secret1", name |-> "Asha", role |-> role,
             studentProfile |-> sp, proctorProfile |-> pp]
    IN  {body("student", [NoProfile EXCEPT !.present = TRUE,
                                           !.studentId = Len(users) + 1,
                                           !.department = "CSE", !.semester = 1,
                                           !.proctorId = p],
              NoProfile) : p \in 0..(Len(proctorProfiles) + 1)}
        \cup {body("proctor", NoProfile,
                   [NoProfile EXCEPT !.present = TRUE, !.facultyId = Len(users) + 1,
                                     !.department = "CSE", !.designation = "Professor"])}

\* the forgot-password body of the first student
StudentForgotBodies == {[email |-> 1, role |-> "student"]}

NextApi ==
    \/ \E body \in EnrolBodies : Signup(1, body)
    \/ \E user \in Callers, body \in CreateBodies : CreateQuery(user, body)
    \/ \E user \in Callers, id \in IdParams, body \in NotedBodies :
            ProctorRespond(user, id, body)
    \/ \E user \in Callers, id \in IdParams, body \in DecisionBodies :
            UpdateStatus(user, id, body)
    \/ \E body \in StudentForgotBodies : ForgotPassword(body, TRUE)
    \/ \E body \in IssuedTokenBodies : ResetPassword(body)

SpecApi == Init /\ [][NextApi]_vars

(***************************************************************************)
(* Properties.  A property of a route quantifies over the requests that    *)
(* can be sent in a state and speaks of the handler's reply to each.       *)
(***************************************************************************)
\* the path parameter that names query q
IdOf(q) == <<DigitChars[q + 1]>>

\* the path parameters the handlers resolve to query q
IdsOf(q) == {id \in IdParams : parseInt(id) = q}

\* t is s with one row added after it
AddsOneRow(s, t) == Len(t) = Len(s) + 1 /\ SubSeq(t, 1, Len(s)) = s

LastRow(t) == t[Len(t)]

\* users with an authenticated session who are neither party of query q
NonParties(q) ==
    {u \in Callers : isAuthenticated(u)
                     /\ u # queries[q].studentId /\ u # queries[q].proctorId}

\* C1: every query created through POST /api/student/queries is stored with
\* status 'pending', whatever the body holds (a status field included); a
\* request that is not answered 201 stores nothing.
C1_CreatedQueryIsPending ==
    \A user \in Callers, body \in CreateBodies :
        LET r == postStudentQueries(user, body) IN
        IF r.code = 201
        THEN /\ AddsOneRow(queries, r.queries)
             /\ LastRow(r.queries).status = "pending"
        ELSE r.queries = queries

C1_Witness ==
    /\ Len(queries) >= 1
    /\ LastRow(queries).status = "pending"
    /\ \E user \in Callers, body \in CreateBodies :
            /\ body.status = "closed"
            /\ postStudentQueries(user, body).code = 201

\* C2: when the query's proctor calls the proctor-specific respond route, one
\* response authored by that proctor is appended; a pending query becomes
\* in_progress, and a query in any other status keeps its status.  No other
\* query changes.
C2_ProctorRespondTransition ==
    \A q \in 1..Len(queries), body \in RespondBodies :
        body.response # Undefined =>
            LET user == queries[q].proctorId
                r == postProctorQueryRespond(user, IdOf(q), body)
            IN  /\ r.code = 201
                /\ AddsOneRow(queryResponses, r.queryResponses)
                /\ LastRow(r.queryResponses).queryId = q
                /\ LastRow(r.queryResponses).userId = user
                /\ LastRow(r.queryResponses).response = body.response
                /\ Len(r.queries) = Len(queries)
                /\ r.queries[q].status =
                       IF queries[q].status = "pending" THEN "in_progress"
                       ELSE queries[q].status
                /\ \A o \in 1..Len(queries) : o # q => r.queries[o] = queries[o]

\* a query the proctor-specific route has answered: it left pending by a write
\* made at the time of its proctor's response, and no status update was needed
C2_Witness ==
    \E q \in 1..Len(queries), a \in 1..Len(queryResponses) :
        /\ queries[q].status = "in_progress"
        /\ queryResponses[a].queryId = q
        /\ queryResponses[a].userId = queries[q].proctorId
        /\ queryResponses[a].createdAt = queries[q].updatedAt
        /\ postProctorQueryRespond(queries[q].proctorId, IdOf(q),
                                   [response |-> "Noted"]).queries[q] = queries[q]

\* C3: the shared respond route never changes a query: for every caller, id
\* and body the queries table (status and updatedAt included) is as before;
\* a 201 adds exactly one response row and any other reply adds none.
C3_GenericRespondKeepsQuery ==
    \A user \in Callers, id \in IdParams, body \in RespondBodies :
        LET r == postQueryRespond(user, id, body) IN
        /\ r.queries = queries
        /\ IF r.code = 201
           THEN AddsOneRow(queryResponses, r.queryResponses)
           ELSE r.queryResponses = queryResponses

\* a pending query that holds its student's response (students can respond on
\* the shared route only), written after the query's last update
C3_Witness ==
    \E q \in 1..Len(queries), a \in 1..Len(queryResponses) :
        /\ queries[q].status = "pending"
        /\ queryResponses[a].queryId = q
        /\ queryResponses[a].userId = queries[q].studentId
        /\ queryResponses[a].createdAt > queries[q].updatedAt

\* C4: closed is terminal: no step takes a query out of status closed.
C4_ClosedIsTerminal ==
    [][\A q \in 1..Len(queries) :
          queries[q].status = "closed" => queries'[q].status = "closed"]_vars

\* C5: the assigned proctor moves a query from any status to any of the four
\* statuses with PATCH .../status: the reply is 200 and the stored status is
\* the requested one; a status outside the enum is answered 400 and changes
\* nothing; no reply other than 200 changes the queries.
C5_ProctorSetsAnyStatus ==
    /\ \A q \in 1..Len(queries), body \in StatusBodies :
          LET r == patchProctorQueryStatus(queries[q].proctorId, IdOf(q), body) IN
          IF body.status \in queryStatusEnum
          THEN /\ r.code = 200
               /\ Len(r.queries) = Len(queries)
               /\ r.queries[q].status = body.status
               /\ \A o \in 1..Len(queries) : o # q => r.queries[o] = queries[o]
          ELSE r.code = 400 /\ r.queries = queries
    /\ \A user \in Callers, id \in IdParams, body \in StatusBodies :
          LET r == patchProctorQueryStatus(user, id, body) IN
          /\ r.queryResponses = queryResponses
          /\ r.code # 200 => r.queries = queries

\* a closed query, which only a status update produces, that its proctor can
\* still move to every status
C5_Witness ==
    \E q \in 1..Len(queries) :
        /\ queries[q].status = "closed"
        /\ \A s \in queryStatusEnum :
              patchProctorQueryStatus(queries[q].proctorId, IdOf(q),
                                      [status |-> s]).queries[q].status = s

\* C6: a status update of an existing query by an authenticated user who is
\* not its proctorId (its own student, another proctor, anyone else) never
\* succeeds and changes nothing; a well-formed one is answered 403.
C6_OnlyProctorUpdatesStatus ==
    \A q \in 1..Len(queries), user \in Callers, body \in StatusBodies :
        (isAuthenticated(user) /\ user # queries[q].proctorId) =>
            \A id \in IdsOf(q) :
                LET r == patchProctorQueryStatus(user, id, body) IN
                /\ r.queries = queries
                /\ r.queryResponses = queryResponses
                /\ r.code # 200
                /\ statusSchema(body) => r.code = 403

\* a query in progress whose own student and another proctor are both refused
C6_Witness ==
    \E q \in 1..Len(queries), p \in Callers :
        /\ queries[q].status = "in_progress"
        /\ isRole(p, "proctor") /\ p # queries[q].proctorId
        /\ patchProctorQueryStatus(p, IdOf(q), [status |-> "closed"]).code = 403
        /\ patchProctorQueryStatus(queries[q].studentId, IdOf(q),
                                   [status |-> "closed"]).code = 403

\* C7: for every existing query, an authenticated user who is neither its
\* studentId nor its proctorId changes nothing through view, shared respond,
\* proctor respond or status update, and a well-formed request is answered 403.
C7_NonPartyForbidden ==
    \A q \in 1..Len(queries) : \A user \in NonParties(q), id \in IdsOf(q) :
        /\ getQuery(user, id).code = 403
        /\ \A body \in RespondBodies :
              LET g == postQueryRespond(user, id, body)
                  p == postProctorQueryRespond(user, id, body)
              IN  /\ g.queries = queries /\ g.queryResponses = queryResponses
                  /\ p.queries = queries /\ p.queryResponses = queryResponses
                  /\ insertQueryResponseSchema(body) => g.code = 403 /\ p.code = 403
        /\ \A body \in StatusBodies :
              LET u == patchProctorQueryStatus(user, id, body) IN
              /\ u.queries = queries /\ u.queryResponses = queryResponses
              /\ statusSchema(body) => u.code = 403

\* a query with a response, and a student and a proctor who are not its parties
C7_Witness ==
    \E q \in 1..Len(queries) :
        /\ getQueryResponses(q) # {}
        /\ \E u \in NonParties(q) : isRole(u, "student")
        /\ \E u \in NonParties(q) :
              /\ isRole(u, "proctor")
              /\ postProctorQueryRespond(u, IdOf(q), [response |-> "Noted"]).code = 403

\* C8: each stored QueryResponse's userId is the studentId or the proctorId of
\* the query it belongs to.
C8_ResponseAuthorIsParty ==
    \A a \in 1..Len(queryResponses) :
        /\ getQueryById(queryResponses[a].queryId) # Null
        /\ queryResponses[a].userId \in
              {queries[queryResponses[a].queryId].studentId,
               queries[queryResponses[a].queryId].proctorId}

\* a stored response, on a query that has users who are not its parties
C8_Witness ==
    \E a \in 1..Len(queryResponses) :
        /\ queryResponses[a].userId = queries[queryResponses[a].queryId].proctorId
        /\ NonParties(queryResponses[a].queryId) # {}

\* the user id of the proctor whose profile is the student's assigned proctor
AssignedProctorUser(student) ==
    proctorProfiles[studentProfiles[getStudentProfile(student)].proctorId].userId

\* C9: each Query's studentId is the student who created it and its proctorId
\* is the user id of the proctor whose profile is that student's
\* StudentProfile.proctorId; a proctorId in the request body has no effect.
C9_QueryParties ==
    /\ \A q \in 1..Len(queries) :
          /\ isRole(queries[q].studentId, "student")
          /\ getStudentProfile(queries[q].studentId) # Null
          /\ ~noProctorAssigned(getStudentProfile(queries[q].studentId))
          /\ queries[q].proctorId = AssignedProctorUser(queries[q].studentId)
          /\ isRole(queries[q].proctorId, "proctor")
    /\ \A user \in Callers, body \in CreateBodies :
          LET r == postStudentQueries(user, body) IN
          r.code = 201 =>
              /\ LastRow(r.queries).studentId = user
              /\ LastRow(r.queries).proctorId = AssignedProctorUser(user)

\* a stored query, and a create request that names another proctor in its body
C9_Witness ==
    /\ Len(queries) >= 1
    /\ \E user \in Callers, body \in CreateBodies :
          /\ body.proctorId # Null
          /\ postStudentQueries(user, body).code = 201
          /\ body.proctorId # AssignedProctorUser(user)

\* C10: a create-query request by a student whose profile has no assigned
\* proctor is answered 400 and stores no query.
C10_NoProctorRejected ==
    \A user \in Callers, body \in CreateBodies :
        (/\ isRole(user, "student")
         /\ getStudentProfile(user) # Null
         /\ studentProfiles[getStudentProfile(user)].proctorId = Null) =>
            LET r == postStudentQueries(user, body) IN
            /\ r.code = 400
            /\ r.queries = queries
            /\ r.queryResponses = queryResponses

\* a student without a proctor sending a well-formed query, while another
\* student's query is stored
C10_Witness ==
    /\ Len(queries) >= 1
    /\ \E user \in Callers, body \in CreateBodies :
          /\ isRole(user, "student")
          /\ getStudentProfile(user) # Null
          /\ studentProfiles[getStudentProfile(user)].proctorId = Null
          /\ body.subject # Undefined /\ body.description # Undefined
          /\ postStudentQueries(user, body).code = 400

\* C11: a create-query request whose subject has fewer than 3 characters or
\* whose description has fewer than 10 characters is refused (400) and stores
\* no query: every stored query's subject has at least 3 characters and its
\* description at least 10.
C11_ShortTextRejected ==
    \A q \in 1..Len(queries) : queryFormSchema(queries[q])

\* the token is stored, has not been used and has not expired
TokenLive(token) ==
    \E t \in 1..Len(passwordResetTokens) :
        /\ ~passwordResetTokens[t].deleted
        /\ passwordResetTokens[t].token = token
        /\ passwordResetTokens[t].usedAt = NoTime
        /\ passwordResetTokens[t].expiresAt > now

\* the user a stored token was issued to
TokenUser(token) ==
    passwordResetTokens[CHOOSE t \in 1..Len(passwordResetTokens) :
        ~passwordResetTokens[t].deleted /\ passwordResetTokens[t].token = token].userId

\* C12: a reset-password request is answered 200, with the user's password
\* replaced by the hash of the new password and the token marked used, exactly
\* when the presented token is stored, not yet used and not expired; every
\* other request is answered 400 and changes no password and no token.
C12_ResetSucceedsIffTokenLive ==
    \A body \in ResetBodies :
        LET r == postResetPassword(body) IN
        IF passwordResetSchema(body) /\ TokenLive(body.token)
        THEN /\ r.code = 200
             /\ r.users[TokenUser(body.token)].password[2] = body.newPassword
             /\ \A t \in 1..Len(passwordResetTokens) :
                   passwordResetTokens[t].token = body.token =>
                       r.passwordResetTokens[t].usedAt # NoTime
        ELSE /\ r.code = 400
             /\ r.users = users
             /\ r.passwordResetTokens = passwordResetTokens

\* the reset-password requests presenting the token that were answered 200
Redemptions(token) ==
    {i \in 1..Len(requests) :
        /\ requests[i].body.token = token
        /\ requests[i].pc = "done" /\ requests[i].code = 200}

C14_PurgedOnEveryRequest ==
    \A body \in ForgotBodies, mailSent \in BOOLEAN :
        LET r == postForgotPassword(body, mailSent) IN
        r.code = 200 =>
            \A t \in 1..Len(r.passwordResetTokens) :
                ~r.passwordResetTokens[t].deleted =>
                    /\ ~(r.passwordResetTokens[t].expiresAt < now)
                    /\ r.passwordResetTokens[t].usedAt = NoTime

\* C15: validation comes before the store is touched: a registration
\* answered 400 has created no User row.
C15_RejectedRegistrationStoresNothing ==
    [][\A client \in Clients, body \in RegisterBodies :
          (postRegister(body).code = 400 /\ Register(client, body))
              => UNCHANGED accountVars]_vars

\* the replies of the /api/student/* routes to a request of the user
StudentRouteReplies(user) ==
    {postStudentQueries(user, body) : body \in CreateBodies}
    \cup {getStudentRecords(user), getStudentQueries(user)}

\* the replies of the /api/proctor/* routes to a request of the user
ProctorRouteReplies(user) ==
    {postProctorQueryRespond(user, id, body) : id \in IdParams, body \in RespondBodies}
    \cup {patchProctorQueryStatus(user, id, body) : id \in IdParams, body \in StatusBodies}
    \cup {getProctorStudent(user, id) : id \in IdParams}
    \cup {getProctorStudents(user), getProctorQueries(user)}

\* the replies of every route but register, login, logout, forgot-password
\* and reset-password
GatedReplies(user) ==
    StudentRouteReplies(user) \cup ProctorRouteReplies(user)
    \cup {getQuery(user, id) : id \in IdParams}
    \cup {postQueryRespond(user, id, body) : id \in IdParams, body \in RespondBodies}
    \cup {getApiUser(user), getProfile(user)}

\* the reply refuses with the code and leaves the store as it is
Refused(r, code) ==
    r.code = code /\ r.queries = queries /\ r.queryResponses = queryResponses

\* a client without an authenticated session is answered 401 by every gated
\* route, and nothing is stored
NoSessionRefused ==
    \A client \in Clients :
        sessions[client] = Null =>
            \A r \in GatedReplies(sessions[client]) : Refused(r, 401)

\* a client's session changes only by a logout (or expiry), which ends it, or
\* by a login answered 200 or a registration answered 201, which starts it as
\* the user of that reply
SessionOnlyFromLogin ==
    \A client \in Clients :
        sessions'[client] # sessions[client] =>
            \/ sessions'[client] = Null
            \/ \E body \in LoginBodies :
                  /\ postLogin(body).code = 200
                  /\ postLogin(body).login = sessions'[client]
            \/ \E body \in SignupBodies :
                  /\ postRegister(body).code = 201
                  /\ postRegister(body).login = sessions'[client]
                  /\ users' = postRegister(body).users

\* C16: every route other than register, login, logout, forgot-password and
\* reset-password answers a request without an authenticated session with 401
\* and changes nothing; a session is authenticated only from a successful
\* login or registration until the next logout.
C16_SessionGate == []NoSessionRefused /\ [][SessionOnlyFromLogin]_vars

\* a query created through a session, one client logged in as its student and
\* another client, without a session, refused on the same request
C16_Witness ==
    \E c1 \in Clients, c2 \in Clients :
        /\ Len(queries) >= 1
        /\ sessions[c1] = queries[1].studentId
        /\ sessions[c2] = Null
        /\ \E body \in CreateBodies :
              /\ postStudentQueries(sessions[c1], body).code = 201
              /\ postStudentQueries(sessions[c2], body).code = 401

\* C17: an authenticated student is answered 403 by every /api/proctor/*
\* route and an authenticated proctor by every /api/student/* route, and
\* nothing is stored: no proctor creates a query, no student sets a status.
C17_RoleGate ==
    \A client \in Clients :
        LET user == sessions[client] IN
        /\ isRole(user, "student") =>
              \A r \in ProctorRouteReplies(user) : Refused(r, 403)
        /\ isRole(user, "proctor") =>
              \A r \in StudentRouteReplies(user) : Refused(r, 403)

\* a student and a proctor logged in, with a query of that student assigned to
\* that proctor whose status the proctor has set
C17_Witness ==
    \E c1 \in Clients, c2 \in Clients, q \in 1..Len(queries) :
        /\ isRole(sessions[c1], "student") /\ queries[q].studentId = sessions[c1]
        /\ isRole(sessions[c2], "proctor") /\ queries[q].proctorId = sessions[c2]
        /\ queries[q].status = "resolved"
        /\ patchProctorQueryStatus(sessions[c1], IdOf(q), [status |-> "closed"]).code = 403

\* the e-mail and password of the body are those of a stored user
CorrectCredentials(body) ==
    /\ getUserByEmail(body.email) # Null
    /\ comparePasswords(body.password, users[getUserByEmail(body.email)].password)

\* C18: a login with a correct e-mail and password and a role other than the
\* user's stored role is answered 403 (400 when the body fails the login
\* schema) and establishes no session; a session is established, with reply
\* 200 and as that user, only when e-mail, password and role all match.
C18_LoginRoleBound ==
    \A body \in LoginBodies :
        LET r == postLogin(body)
            user == getUserByEmail(body.email)
        IN  /\ (r.login # Null) <=> (r.code = 200)
            /\ r.login # Null =>
                  /\ CorrectCredentials(body)
                  /\ r.login = user
                  /\ users[user].role = body.role
            /\ (CorrectCredentials(body) /\ users[user].role # body.role) =>
                  /\ r.login = Null
                  /\ IF loginSchema(body) THEN r.code = 403 ELSE r.code = 400
            /\ (CorrectCredentials(body) /\ users[user].role = body.role) =>
                  r.code = 200

\* a seeded user logged in, which only a login does, while a login with that
\* user's e-mail and password and the other role is refused
C18_Witness ==
    \E client \in Clients, body \in LoginBodies :
        /\ sessions[client] \in 1..Len(SeedUsers)
        /\ getUserByEmail(body.email) = sessions[client]
        /\ CorrectCredentials(body)
        /\ body.role \in roleEnum /\ body.role # users[sessions[client]].role
        /\ postLogin(body).code = 403

\* C19: no two users share an e-mail address and no two users share a
\* username, also when registrations carrying the same address or username
\* are in flight together and both pass the existence checks before either
\* inserts: at most one of them creates a user.
C19_UniqueEmailAndUsername ==
    \A u \in 1..Len(users), v \in 1..Len(users) :
        u # v => users[u].email # users[v].email /\ users[u].username # users[v].username

\* two registrations with the same address, both past the existence checks:
\* one has created the user, the other was refused at its insert
C19_Witness ==
    \E i \in 1..Len(requests), j \in 1..Len(requests) :
        /\ i # j
        /\ requests[i].body.email = requests[j].body.email
        /\ requests[i].user # Null
        /\ requests[j].pc = "done" /\ requests[j].code = 500 /\ requests[j].user = Null

\* C20: a response to a closed query is not blocked: on the shared respond
\* route from either party, and on the proctor-specific route from the
\* proctor, the request is answered 201, the response is appended, and the
\* query stays closed.
C20_ClosedQueryAcceptsResponses ==
    \A q \in 1..Len(queries), body \in RespondBodies :
        (queries[q].status = "closed" /\ insertQueryResponseSchema(body)) =>
            /\ \A user \in {queries[q].studentId, queries[q].proctorId} :
                  LET r == postQueryRespond(user, IdOf(q), body) IN
                  /\ r.code = 201
                  /\ AddsOneRow(queryResponses, r.queryResponses)
                  /\ LastRow(r.queryResponses).queryId = q
                  /\ LastRow(r.queryResponses).userId = user
                  /\ r.queries = queries
            /\ LET r == postProctorQueryRespond(queries[q].proctorId, IdOf(q), body) IN
               /\ r.code = 201
               /\ AddsOneRow(queryResponses, r.queryResponses)
               /\ LastRow(r.queryResponses).queryId = q
               /\ LastRow(r.queryResponses).userId = queries[q].proctorId
               /\ r.queries = queries

\* a closed query that holds a response written after it was closed
C20_Witness ==
    \E q \in 1..Len(queries), a \in 1..Len(queryResponses) :
        /\ queries[q].status = "closed"
        /\ queryResponses[a].queryId = q
        /\ queryResponses[a].createdAt > queries[q].updatedAt

(***************************************************************************)
(* Requests in flight together on one query.                               *)
(***************************************************************************)
\* request i takes its next await in this step
Steps(i) == i \in 1..Len(requests) /\ requests'[i] # requests[i]

\* a status update that found the query and its caller to be the proctor is
\* answered 200, whatever happened to the row after the handler read it
NoUpdateRejectedForChange ==
    \A i \in 1..Len(requests) :
        (/\ requests[i].route = "status"
         /\ requests[i].status # Undefined
         /\ requests[i].pc = "done") => requests[i].code = 200

\* the write of a status update leaves the row with the status of its body
WriteSetsStatus ==
    \A i \in 1..Len(requests) :
        (/\ requests[i].route = "status"
         /\ requests[i].pc = "updateQueryStatus"
         /\ Steps(i))
        => /\ requests'[i].pc = "done"
           /\ requests'[i].code = 200
           /\ queries'[requests[i].queryId].status = requests[i].body.status

\* C21: two status updates of the same query by its proctor that run
\* together both succeed, and the stored status is that of the write applied
\* last: each write sets the status of its own body, and no request is
\* refused because the row changed after it was read.
C21_LastWriteWins == []NoUpdateRejectedForChange /\ [][WriteSetsStatus]_vars

\* two updates with different statuses that both read the pending row, and
\* so before either wrote, have both been answered 200
C21_Witness ==
    \E i, j \in 1..Len(requests) :
        /\ i # j
        /\ requests[i].route = "status" /\ requests[j].route = "status"
        /\ requests[i].queryId = requests[j].queryId
        /\ requests[i].status = "pending" /\ requests[j].status = "pending"
        /\ requests[i].body.status # requests[j].body.status
        /\ requests[i].code = 200 /\ requests[j].code = 200
        /\ queries[requests[i].queryId].status
             \in {requests[i].body.status, requests[j].body.status}

\* C23: a step of a proctor-specific respond request never replaces a status
\* of resolved or closed; the only transition it performs is pending to
\* in_progress.
C23_RespondOnlyFromPending ==
    [][\A i \in 1..Len(requests) :
          (requests[i].route = "respond" /\ Steps(i))
          => \A q \in 1..Len(queries) :
                queries'[q].status # queries[q].status
                => /\ queries[q].status = "pending"
                   /\ queries'[q].status = "in_progress"]_vars

(***************************************************************************)
(* Attendance figures.                                                     *)
(***************************************************************************)
\* the attendance rows of a student's course
RowsOf(studentId, courseName) ==
    {a \in 1..Len(attendance) : /\ attendance[a].studentId = studentId
                                /\ attendance[a].courseName = courseName}

PresentRowsOf(studentId, courseName) ==
    {a \in RowsOf(studentId, courseName) : attendance[a].isPresent}

\* hundredths is present / total * 100 rounded to two decimals: no other
\* number of hundredths is nearer to the quotient
RoundedPercentage(hundredths, present, total) ==
    LET distance(h) == IF h * total >= 10000 * present
                       THEN h * total - 10000 * present
                       ELSE 10000 * present - h * total
    IN  /\ distance(hundredths) <= distance(hundredths - 1)
        /\ distance(hundredths) <= distance(hundredths + 1)

FiguresRight(figures) ==
    /\ 0 <= figures.present /\ figures.present <= figures.total
    /\ IF figures.total = 0 THEN figures.percentage = 0
       ELSE RoundedPercentage(figures.percentage, figures.present, figures.total)

\* C22: in the reply of GET /api/student/attendance every reported course
\* has 0 <= present <= total, total the number of the student's rows of the
\* course and present the number of those marked present, the percentage is
\* present / total * 100 rounded to two decimals, and a total of 0, per
\* course or overall, gives the percentage 0 with the reply still 200; the
\* figures of GET /api/proctor/students are computed the same way.
C22_AttendancePercentage ==
    /\ \A user \in Callers :
          LET r == getApiStudentAttendance(user) IN
          /\ r.code \in {200, 401, 403, 404}
          /\ (isAuthenticated(user) /\ isRole(user, "student")
                 /\ getStudentProfile(user) # Null) => r.code = 200
          /\ r.code = 200 =>
                /\ \A course \in DOMAIN r.courseWise :
                      /\ r.courseWise[course].total
                            = Cardinality(RowsOf(getStudentProfile(user), course))
                      /\ r.courseWise[course].present
                            = Cardinality(PresentRowsOf(getStudentProfile(user), course))
                      /\ FiguresRight(r.courseWise[course])
                /\ FiguresRight(r.overall)
    /\ \A student \in 1..Len(studentProfiles) : FiguresRight(attendanceOfStudent(student))

\* a student with three rows of CS101, two of them present, is shown 66.67,
\* and another student without any row is shown an overall 0
C22_Witness ==
    \E user, other \in 1..Len(users) :
        LET r == getApiStudentAttendance(user)
            o == getApiStudentAttendance(other)
        IN
        /\ r.code = 200 /\ o.code = 200
        /\ "CS101" \in DOMAIN r.courseWise
        /\ r.courseWise["CS101"] = [total |-> 3, present |-> 2, percentage |-> 6667]
        /\ o.overall = [total |-> 0, present |-> 0, percentage |-> 0]

(***************************************************************************)
(* Order of the checks on the query-scoped routes.                         *)
(***************************************************************************)
\* path parameters beside the plain ones: digits followed by other text,
\* which parseInt reads as the number of the digits, and text before digits
PathParams == IdParams \cup {<<"1", "x">>, <<"x", "1">>}

\* the status code the order 400, 400, 404, 403 gives a caller who passed
\* the middleware
OrderedCode(user, id, bodyValid, parties, success) ==
    IF parseInt(id) = NaN THEN 400
    ELSE IF ~bodyValid THEN 400
    ELSE IF parseInt(id) \notin 1..Len(queries) THEN 404
    ELSE IF user \notin parties[parseInt(id)] THEN 403
    ELSE success

BothParties == [q \in 1..Len(queries) |-> {queries[q].studentId, queries[q].proctorId}]

ProctorParty == [q \in 1..Len(queries) |-> {queries[q].proctorId}]

\* C24: on the four query-scoped routes a caller who passed the middleware
\* is checked in the order id that parses to no number (400), invalid body
\* (400), query missing (404), caller no allowed party (403): a missing
\* query gives 404 to every such caller, never 403, and an existing one
\* gives 403 to those who are no party to it.
C24_CheckOrder ==
    \A user \in 1..Len(users), id \in PathParams :
        /\ getQuery(user, id).code = OrderedCode(user, id, TRUE, BothParties, 200)
        /\ \A body \in RespondBodies :
              /\ postQueryRespond(user, id, body).code
                   = OrderedCode(user, id, body.response # Undefined, BothParties, 201)
              /\ users[user].role = "proctor" =>
                   postProctorQueryRespond(user, id, body).code
                     = OrderedCode(user, id, body.response # Undefined, ProctorParty, 201)
        /\ \A body \in StatusBodies :
              users[user].role = "proctor" =>
                 patchProctorQueryStatus(user, id, body).code
                   = OrderedCode(user, id, body.status \in queryStatusEnum,
                                 ProctorParty, 200)

\* a query exists and a proctor who is no party to it is answered 403 for it,
\* 404 for the next id, whatever the body, and 400 for text
C24_Witness ==
    \E q \in 1..Len(queries) : \E user \in NonParties(q) :
        /\ users[user].role = "proctor"
        /\ getQuery(user, IdOf(q)).code = 403
        /\ getQuery(user, <<"1", "x">>).code = 403
        /\ getQuery(user, IdOf(Len(queries) + 1)).code = 404
        /\ patchProctorQueryStatus(user, IdOf(Len(queries) + 1),
                                   [status |-> "closed"]).code = 404
        /\ patchProctorQueryStatus(user, IdOf(Len(queries) + 1),
                                   [status |-> "reopened"]).code = 400
        /\ postProctorQueryRespond(user, <<"x">>, [response |-> "Noted"]).code = 400

(***************************************************************************)
(* Repeating a request.                                                    *)
(***************************************************************************)
\* tables without their timestamps
QueryRows(qs) ==
    [q \in 1..Len(qs) |->
        [studentId |-> qs[q].studentId, proctorId |-> qs[q].proctorId,
         subject |-> qs[q].subject, description |-> qs[q].description,
         status |-> qs[q].status]]

TokenRows(ts) ==
    [t \in 1..Len(ts) |->
        [userId |-> ts[t].userId, token |-> ts[t].token, deleted |-> ts[t].deleted,
         used |-> ts[t].usedAt # NoTime]]

\* the rows stored once the same request has been answered again
RegisteredAgain(body) ==
    LET again == postRegister(body) IN
    <<again.users, again.studentProfiles, again.proctorProfiles>>

CreatedAgain(user, body) == QueryRows(postStudentQueries(user, body).queries)

UpdatedAgain(user, id, body) == QueryRows(patchProctorQueryStatus(user, id, body).queries)

RequestedAgain(body, mailSent) ==
    LET again == postForgotPassword(body, mailSent) IN
    <<again.users, TokenRows(again.passwordResetTokens)>>

ResetAgain(body) ==
    LET again == postResetPassword(body) IN
    <<again.users, TokenRows(again.passwordResetTokens)>>

\* a step that answers a registration, a status update or a reset-password
\* request leaves rows that the same request, sent again, does not change.
\* (A step that wrote nothing is a request that changes no row however
\* often it is sent; the steps to look at are those that wrote.)
RepeatChangesNothing ==
    /\ accountVars' # accountVars =>
          \A body \in SignupBodies :
              Signup(1, body) => RegisteredAgain(body)' = accountVars'
    /\ queries' # queries =>
          \A user \in Callers, id \in IdParams, body \in StatusBodies :
              UpdateStatus(user, id, body)
              => UpdatedAgain(user, id, body)' = QueryRows(queries)'
    /\ <<users, passwordResetTokens>>' # <<users, passwordResetTokens>> =>
          \A body \in ResetBodies :
              ResetPassword(body)
              => ResetAgain(body)' = <<users, TokenRows(passwordResetTokens)>>'

\* the same of create query and forgot-password
RepeatAddsNoRow ==
    /\ queries' # queries =>
          \A user \in Callers, body \in CreateBodies :
              CreateQuery(user, body) => CreatedAgain(user, body)' = QueryRows(queries)'
    /\ passwordResetTokens' # passwordResetTokens =>
          \A body \in AccountForgotBodies, mailSent \in BOOLEAN :
              ForgotPassword(body, mailSent)
              => RequestedAgain(body, mailSent)'
                   = <<users, TokenRows(passwordResetTokens)>>'

\* a create-query request answered 201, sent again, stores a second query
\* with the same fields; a forgot-password request that stored a token, sent
\* again, stores another token for the same user
RepeatAddsRow ==
    /\ \A user \in Callers, body \in CreateBodies :
          (Len(queries') = Len(queries) + 1 /\ CreateQuery(user, body))
          => LET again == CreatedAgain(user, body)' IN
             /\ Len(again) = Len(queries') + 1
             /\ again[Len(again)] = again[Len(queries')]
    /\ \A body \in AccountForgotBodies, mailSent \in BOOLEAN :
          (Len(passwordResetTokens') = Len(passwordResetTokens) + 1
              /\ ForgotPassword(body, mailSent))
          => LET again == RequestedAgain(body, mailSent)'[2] IN
             /\ Len(again) = Len(passwordResetTokens') + 1
             /\ again[Len(again)].userId = again[Len(passwordResetTokens')].userId
             /\ again[Len(again)].token # again[Len(passwordResetTokens')].token

\* C25 as stated: every operation that writes rows, response-append aside,
\* leaves the same rows, timestamps ignored, when the same request is sent
\* twice in succession as when it is sent once.
C25_AllIdempotent == [][RepeatChangesNothing /\ RepeatAddsNoRow]_vars

\* C25 as the code has it: registration, status update and reset-password
\* leave the same rows when repeated; create query and forgot-password, like
\* response-append, store one more row each time they succeed.
C25_IdempotentExceptInserts == [][RepeatChangesNothing /\ RepeatAddsRow]_vars

\* an account has been registered, a token issued and a query created and
\* resolved; registering again and resolving again change no row, while
\* creating the query again stores a second one
C25_Witness ==
    /\ Len(users) > Len(SeedUsers)
    /\ Len(passwordResetTokens) > 0
    /\ \E q \in 1..Len(queries) :
          /\ queries[q].status = "resolved"
          /\ UpdatedAgain(queries[q].proctorId, IdOf(q), [status |-> "resolved"])
               = QueryRows(queries)
          /\ Len(CreatedAgain(queries[q].studentId,
                              CreateBody(queries[q].subject, queries[q].description,
                                         Undefined, Null))) = Len(queries) + 1

(***************************************************************************)
(* A query's thread of responses.                                          *)
(***************************************************************************)
\* no step changes or removes a stored response
ResponsesKept ==
    /\ Len(queryResponses') >= Len(queryResponses)
    /\ \A r \in 1..Len(queryResponses) : queryResponses'[r] = queryResponses[r]

\* in every list GET /api/queries/:id can return, a response stored later
\* comes after each response stored earlier
AddedLaterListedLater ==
    \A user \in Callers, id \in IdParams :
        \A list \in getQueryResponseLists(user, id) :
            \A i, j \in 1..Len(list) : list[i] < list[j] => i < j

\* C26: responses are append-only and ordered: no operation modifies or
\* deletes a stored response, and GET /api/queries/:id lists the responses of
\* the query so that one added later comes after every one added earlier.
C26_AppendOnlyOrdered == []AddedLaterListedLater /\ [][ResponsesKept]_vars

(***************************************************************************)
(* Assignment of students to proctors.                                     *)
(***************************************************************************)
\* no step changes a stored student profile
StudentProfilesKept ==
    /\ Len(studentProfiles') >= Len(studentProfiles)
    /\ \A s \in 1..Len(studentProfiles) : studentProfiles'[s] = studentProfiles[s]

\* the students of a proctor change only in a step that registers a user,
\* and then by the one profile it stores
StudentsChangeByRegistration ==
    \A p \in 1..Len(proctorProfiles) :
        getStudentsByProctor(p)' # getStudentsByProctor(p)
        => /\ Len(users') = Len(users) + 1
           /\ getStudentsByProctor(p)' = getStudentsByProctor(p) \cup {Len(studentProfiles')}

\* a student whose profile names no proctor is answered 400 to every
\* create-query request
UnassignedRefused ==
    \A user \in 1..Len(users) :
        (/\ users[user].role = "student"
         /\ getStudentProfile(user) # Null
         /\ studentProfiles[getStudentProfile(user)].proctorId = Null)
        => \A body \in CreateBodies : postStudentQueries(user, body).code = 400

\* C27: no operation of the API changes a student profile's proctorId after
\* registration; so a student registered without a proctor is answered 400 to
\* every create-query request in every reachable state, and the students a
\* proctor sees change only by new registrations.
C27_ProctorIdFixed ==
    []UnassignedRefused /\ [][StudentProfilesKept /\ StudentsChangeByRegistration]_vars

\* a student enrolled without a proctor and one enrolled with a proctor are
\* stored with the seeded ones, queries have been filed, answered and
\* decided, and the first is still refused
C27_Witness ==
    /\ Len(studentProfiles) > Len(SeedStudentProfiles)
    /\ \E s \in (Len(SeedStudentProfiles) + 1)..Len(studentProfiles) :
          /\ studentProfiles[s].proctorId = Null
          /\ postStudentQueries(studentProfiles[s].userId,
                 CreateBody("Grade issue", "My internal marks seem wrong",
                            Undefined, Null)).code = 400
    /\ \E q \in 1..Len(queries) : queries[q].status = "resolved"
    /\ Len(queryResponses) > 0

(***************************************************************************)
(* Lists.                                                                  *)
(***************************************************************************)
\* C28: query lists are isolated per user: GET /api/student/queries returns
\* exactly the queries whose studentId is the caller and GET
\* /api/proctor/queries exactly those whose proctorId is the caller, so no
\* query is in a list of a user who is not one of its two parties.
C28_ListsIsolated ==
    /\ \A user \in 1..Len(users) :
          /\ users[user].role = "student" =>
                /\ getStudentQueries(user).code = 200
                /\ studentQueryList(user)
                     = {q \in 1..Len(queries) : queries[q].studentId = user}
          /\ users[user].role = "proctor" =>
                /\ getProctorQueries(user).code = 200
                /\ proctorQueryList(user)
                     = {q \in 1..Len(queries) : queries[q].proctorId = user}
    /\ \A q \in 1..Len(queries), user \in Callers :
          user \notin {queries[q].studentId, queries[q].proctorId}
          => q \notin studentQueryList(user) \cup proctorQueryList(user)

\* a query is in the lists of its student and of its proctor while another
\* student and another proctor are shown lists without it
C28_Witness ==
    \E q \in 1..Len(queries), student, proctor \in 1..Len(users) :
        /\ q \in studentQueryList(queries[q].studentId)
        /\ q \in proctorQueryList(queries[q].proctorId)
        /\ student # queries[q].studentId /\ getStudentQueries(student).code = 200
        /\ proctor # queries[q].proctorId /\ getProctorQueries(proctor).code = 200
        /\ q \notin studentQueryList(student) \cup proctorQueryList(proctor)

\* the path parameters that name student profiles: every stored id, the next
\* one, and text that is no number
StudentIdParams ==
    {<<DigitChars[k + 1]>> : k \in 1..(Len(studentProfiles) + 1)} \cup {<<"x">>}

\* C29: a proctor reads a student's details only for their own students:
\* GET /api/proctor/student/:id answers 200 exactly when the student's
\* proctorId is the caller's proctor profile id and 403 to every other
\* proctor, every proctor when the student has no proctor, and GET
\* /api/proctor/students lists exactly the students whose proctorId is the
\* caller's profile id.
C29_OwnStudentsOnly ==
    \A user \in 1..Len(users) :
        /\ \A id \in StudentIdParams :
              LET code == getProctorStudent(user, id).code
                  student == parseInt(id)
              IN
              /\ code = 200 <=>
                    /\ users[user].role = "proctor"
                    /\ student \in 1..Len(studentProfiles)
                    /\ getProctorProfile(user) # Null
                    /\ studentProfiles[student].proctorId = getProctorProfile(user)
              /\ (/\ users[user].role = "proctor"
                  /\ student \in 1..Len(studentProfiles)
                  /\ code # 200) => code = 403
        /\ users[user].role = "proctor" =>
              /\ getProctorStudents(user).code = 200
              /\ proctorStudentList(user)
                   = {s \in 1..Len(studentProfiles) :
                        studentProfiles[s].proctorId = getProctorProfile(user)}
        /\ users[user].role # "proctor" => proctorStudentList(user) = {}

\* a proctor reads their own student and is refused a student of another
\* proctor and a student without a proctor, whom no proctor can read
C29_Witness ==
    \E user \in 1..Len(users), own, other, unassigned \in 1..Len(studentProfiles) :
        /\ getProctorStudent(user, <<DigitChars[own + 1]>>).code = 200
        /\ proctorStudentList(user) = {own}
        /\ studentProfiles[other].proctorId \notin {Null, getProctorProfile(user)}
        /\ getProctorStudent(user, <<DigitChars[other + 1]>>).code = 403
        /\ studentProfiles[unassigned].proctorId = Null
        /\ \A proctor \in Proctors :
              getProctorStudent(proctor, <<DigitChars[unassigned + 1]>>).code = 403

(***************************************************************************)
(* What forgot-password tells about accounts.                              *)
(***************************************************************************)
\* the request holds an address and a role that a stored user has
AccountMatches(body) ==
    \E user \in 1..Len(users) :
        users[user].email = body.email /\ users[user].role = body.role

\* the answer to the same request for an address no user has
AnswerWithoutAccount(body, mailSent) ==
    LET code == postForgotPassword([body EXCEPT !.email = Len(users) + 1], mailSent).code
    IN  <<code, forgotPasswordMessage(code)>>

\* C30: forgot-password does not reveal whether an account exists: a
\* well-formed request is answered with the status and message it would get
\* if no user had that address and role, and a request that matches no user
\* stores no token.
C30_NoAccountRevealed ==
    [][\A body \in ForgotBodies, mailSent \in BOOLEAN :
          (passwordResetRequestSchema(body) /\ ForgotPassword(body, mailSent))
          => LET code == postForgotPassword(body, mailSent).code IN
             /\ <<code, forgotPasswordMessage(code)>> = AnswerWithoutAccount(body, mailSent)
             /\ ~AccountMatches(body) => passwordResetTokens' = passwordResetTokens]_vars

====
